---- MODULE Spec2Model ----
(***************************************************************************)
(* Verification model of the scryfall-cache microservice.                  *)
(*                                                                         *)
(* Part I  : CircuitBreaker (src/circuit_breaker) driven by concurrent     *)
(*           ScryfallClient::make_request callers (src/scryfall/client.rs) *)
(*           behind the RateLimiter (src/scryfall/rate_limiter.rs).        *)
(* Part II : CacheManager's tiered read path (src/cache/manager.rs).       *)
(***************************************************************************)
EXTENDS Integers, Sequences, FiniteSets, TLC

\* ------------------------------------------------------------------------
\* Bounds of the model
\* ------------------------------------------------------------------------
\* Number of concurrent tasks sharing one ScryfallClient (it is Clone + Arc).
NumCallers == 2
\* The open timeout of the breaker, in clock units.
OpenTimeout == 2
\* The clock runs from 0 to MaxTime.
MaxTime == 4
\* requests_per_second of the rate limiter (burst size of the quota).
MaxRate == 2
\* Number of card ids; the store, the upstream and the caches hold subsets.
MaxCards == 2
\* Pages 1..MaxPage of 1..MaxPageSize cards are requested.
MaxPage == 2
MaxPageSize == 2
\* get_cards_batch is given up to MaxBatch ids (repeats allowed).
MaxBatch == 3
\* Card names are drawn from 1..MaxNames, so that cards can share a name.
MaxNames == 2
\* The paging client's query matches cards among 1..MaxPagedCards.
MaxPagedCards == 3
\* The wall clock runs from hour 0 to hour MaxClock.
MaxClock == 4
\* QUERY_CACHE_TTL_HOURS and SCRYFALL_CACHE_TTL_HOURS are set to 1..MaxTtl.
MaxTtl == 2
\* The snapshot holds up to MaxBatches * BATCH_SIZE + 1 decodable records.
MaxBatches == 2
\* insert_cards_batch is given up to MaxUpsert cards with ids 1..MaxUpsertIds
\* and column values 1..MaxVals.
MaxUpsert == 2
MaxUpsertIds == 1
MaxVals == 2
\* Search queries negate a filter up to MaxNots times, conjoin up to
\* MaxOrGroups disjunctions and open up to MaxParens parentheses.
MaxNots == 3
MaxOrGroups == 2
MaxParens == 4
\* QUERY_MAX_NESTING and QUERY_MAX_OR_CLAUSES of a service with tight limits.
EnvMaxNesting == 3
EnvMaxOrClauses == 1
\* A batch request holds up to MaxItems items; BATCH_PARALLELISM is unset, a
\* number of 0..MaxPar, or one above the largest the handlers allow.
MaxItems == 3
MaxPar == 2
\* The upstream answers a search with up to MaxSearchPages pages of cards
\* 1..MaxSearchIds.
MaxSearchPages == 2
MaxSearchIds == 2
\* A limiter of 1..MaxLimiterRate requests per second is acquired up to
\* MaxAcquires times; its clock runs to MaxLimiterTime emission intervals.
MaxLimiterRate == 3
MaxAcquires == 5
MaxLimiterTime == 6
\* The versioned tiers: MaxVCards cards match the query, the upstream changes a
\* card up to version MaxVersion, the bulk loader completes MaxLoads loads and
\* NumGetters callers run get_card at the same time.
MaxVCards == 2
MaxVersion == 2
MaxLoads == 1
NumGetters == 2

\* db/postgres/queries.rs
CHUNK_SIZE == 250

\* scryfall/bulk_loader.rs
BATCH_SIZE == 500
MAX_RETRIES == 3
INITIAL_RETRY_DELAY_MS == 1000
MinImported == 1000

\* query/limits.rs (QueryLimits::default), query/validator.rs (its test of
\* the length), api/handlers.rs (BATCH_MAX_IDS)
DefaultMaxQueryLength == 1000
DefaultMaxNestingDepth == 5
DefaultMaxOrClauses == 10
TestMaxQueryLength == 10
BatchMaxIds == 1000
BatchMaxNames == 50
BatchMaxQueries == 10
DefaultBatchParallelism == 4
MinBatchParallelism == 1
MaxBatchParallelism == 32

\* ------------------------------------------------------------------------
\* Program constants
\* ------------------------------------------------------------------------
\* The thresholds range from 1 up to the values the breaker's unit tests use.
TestFailureThreshold == 2
TestSuccessThreshold == 2
TestHalfOpenMaxRequests == 2
\* CircuitBreakerConfig::from_env defaults.
DefaultFailureThreshold == 5
DefaultSuccessThreshold == 2
DefaultHalfOpenMaxRequests == 3

Callers == 1..NumCallers

\* Option<Instant>: None is the empty sequence, Some(t) a one-element sequence.
None == <<>>
Some(t) == <<t>>

VARIABLES
    config,       \* CircuitBreakerConfig of the shared breaker
    cb,           \* CircuitStateData behind the breaker's mutex
    now,          \* the monotonic clock (Instant::now())
    tokens,       \* cells left in the rate limiter's quota
    pc,           \* per caller: position inside make_request / call
    current_state,\* per caller: the local `current_state` of call()
    probe,        \* per caller: it holds a half-open probe slot
    result,       \* per caller: what make_request returned last
    trace,        \* per caller: the steps of its current request, in order
    opened_at,    \* history: when the breaker last moved into Open
    consec_fail,  \* history: failed operations in a row (capped)
    thresh_at,    \* history: when consec_fail reached failure_threshold
    consec_5xx,   \* history: HTTP 5xx answers in a row (capped)
    http5xx_at    \* history: when consec_5xx reached failure_threshold

vars == <<config, cb, now, tokens, pc, current_state, probe, result, trace,
          opened_at, consec_fail, thresh_at, consec_5xx, http5xx_at>>

\* The state of Part II: the caches, the store, the upstream and the readers.
VARIABLES
    workload,      \* the kind of read operation the requests of this run are
    redis_enabled, \* CacheManager.redis is Some(_)
    redis_query,   \* distributed tier: the entry query:<fp>, None or Some(ids)
    redis_cards,   \* distributed tier: the ids that have a card:<id> entry
    redis_auto,    \* distributed tier: the entry autocomplete:<prefix>
    query_cache,   \* durable result-set cache: the row of <fp>, None or Some(ids)
    store_cards,   \* the store: ids of the cards it holds (all match the query)
    upstream_cards,\* the upstream: ids of the cards it has (all match the query)
    rpc,           \* per reader: position in the read operation
    rop,           \* per reader: the operation and its argument
    rids,          \* per reader: the local card_ids
    rcards,        \* per reader: the local cards
    rtodo,         \* per reader: the cache writes still ahead, in code order
    rtrace,        \* per reader: the tiers consulted so far and what each gave
    rresult,       \* per reader: what the operation returned last
    rtotal,        \* per reader: the local total of search_paginated
    rwfail         \* per reader: a cache write of this request has failed

cvars == <<workload, redis_enabled, redis_query, redis_cards, redis_auto, query_cache,
           store_cards, upstream_cards, rpc, rop, rids, rcards, rtodo, rtrace,
           rresult, rtotal, rwfail>>

\* The state of Part III: the durable store's time-stamped rows (the
\* result-set row of one fingerprint, the import records), the bulk loader's
\* refresh task, and the paging of the query executor.
VARIABLES
    backend,       \* the Database backend in use: "postgres" or "sqlite"
    clock,         \* wall-clock time, in hours
    qc_row,        \* the query_cache row of one query_hash, None or Some(row)
    qc_got,        \* what the last get_query_cache(fp) returned
    qc_touch,      \* history: when the row was last written or returned
    query_cache_ttl_hours, \* CacheManager.query_cache_ttl_hours
    has_cards,     \* the cards table holds at least one card
    imports,       \* the imported_at / created_at of the recorded imports
    upstream_updated_at, \* updated_at of the upstream's bulk entry
    tpc,           \* position of the refresh task
    tick,          \* history: what the current tick of the refresh task did
    cache_ttl_hours, \* ScryfallConfig.cache_ttl_hours
    load_ok,       \* history: a load() has succeeded
    pnames,        \* the name of each card
    pcards,        \* the cards of the store that match the query
    psize,         \* page_size of the paging client
    pnext,         \* the page the paging client asks for next
    pconcat        \* the pages received so far, concatenated

tvars == <<backend, clock>>
qvars == <<qc_row, qc_got, qc_touch, query_cache_ttl_hours>>
lvars == <<has_cards, imports, upstream_updated_at, cache_ttl_hours, tpc, tick,
           load_ok>>
pvars == <<pnames, pcards, psize, pnext, pconcat>>

\* The state of Part IV: one run of BulkLoader::load in detail.
VARIABLES
    lpc,           \* position of the run of load()
    snap,          \* the snapshot: its decodable and undecodable records
    attempt,       \* retry_with_backoff: attempts made
    slept,         \* history: the delays slept between attempts, in ms
    left,          \* decodable records not yet handed to insert_cards_batch
    imported,      \* download_and_import: imported
    upserted,      \* history: cards of the batches the store committed
    lres,          \* what load() returned: "none", "ok" or "err"
    lfault,        \* history: the step of load() that failed
    records        \* total_cards of the import records this run appended

bvars == <<lpc, snap, attempt, slept, left, imported, upserted, lres, lfault,
           records>>

\* The cards table of the durable store.
VARIABLES
    cards_tbl,     \* the row of each id, None or Some(row)
    ibres          \* what the last insert_cards_batch returned

uvars == <<cards_tbl, ibres>>

\* The state of Part V: one request in its handler.
VARIABLES
    query_limits,  \* the QueryLimits of the validator
    hpc,           \* position of the handler
    req,           \* the request
    hast,          \* the tree QueryParser::parse returned, None or Some
    hreason,       \* history: why the handler refused the request
    resp,          \* the answer, None or Some([status, code])
    mcalls,        \* history: calls of the cache manager for this request
    merr           \* history: the kind of error the cache manager returned

hvars == <<query_limits, hpc, req, hast, hreason, resp, mcalls, merr>>

\* One request in a batch handler (batch_get_cards_by_name,
\* batch_execute_queries).
VARIABLES
    bpc,           \* position of the handler
    bkind,         \* "named" or "queries"
    bitems,        \* the items of the request: names or query texts
    benv,          \* BATCH_PARALLELISM: None or Some(number)
    bnext,         \* the next item the stream hands out
    inflight,      \* the items buffer_unordered is polling
    indexed,       \* the (idx, result) pairs in the order of completion
    bresp          \* the answer, None or Some

nvars == <<bpc, bkind, bitems, benv, bnext, inflight, indexed, bresp>>

\* One call of ScryfallClient::search_cards.
VARIABLES
    spc,           \* position of the call
    next_page,     \* None or Some(number of the page)
    scards,        \* cards
    served,        \* history: the pages the upstream answered with
    acquired,      \* history: rate-limit tokens taken by the call
    breaker_calls, \* history: calls of the breaker by the call
    sres           \* what the call returned, None or Some

gvars == <<spc, next_page, scards, served, acquired, breaker_calls, sres>>

\* One RateLimiter acquired by one task, call after call.  Time is counted in
\* emission intervals: one interval is 1 / requests_per_second seconds.
VARIABLES
    requests_per_second, \* RateLimiter::new(requests_per_second)
    rl_now,        \* the clock
    tat,           \* the limiter's state: the theoretical arrival time
    rl_pc,         \* "idle" or "sleeping" (inside acquire)
    wake_at,       \* sleep(wait_time) ends at wake_at or later
    acquires       \* history: calls of acquire() that returned

rvars == <<requests_per_second, rl_now, tat, rl_pc, wake_at, acquires>>

\* BulkLoader::load in time: the snapshot a running load discovered, and the
\* snapshot of the last load that succeeded.
VARIABLES
    loading,       \* the refresh task's load(): Some(updated_at of bulk_info)
    fpc,           \* admin_reload's load(): "idle" or "loading"
    floading,      \* admin_reload's load(): Some(updated_at of bulk_info)
    downloaded     \* history: updated_at of the snapshot the last successful
                   \* load() downloaded, None before the first

kvars == <<loading, fpc, floading, downloaded>>

\* CacheManager::get_card and search over cards that have versions: what each
\* tier holds of the cards of one query, with the bulk loader and concurrent
\* callers.  An entry of a cache carries the number of loads completed when
\* its content was computed.
VARIABLES
    w_redis,       \* CacheManager.redis is Some(_)
    w_rows,        \* the store: per id, the versions of the rows of that id
    w_redis_card,  \* distributed tier: per id, None or Some([v, at])
    w_redis_query, \* distributed tier: query:<fp>, None or Some([ids, at])
    w_qcache,      \* the query_cache row of <fp>, None or Some([ids, at])
    w_upstream,    \* the upstream: per id, its version of the card, 0 if none
    loads,         \* history: loads of the bulk loader completed
    quiet,         \* history: nothing but calls of get_card has acted
    g_pc,          \* per caller of get_card: position
    g_id,          \* per caller: the id asked for
    g_card,        \* per caller: the local card, None or Some(v)
    g_result,      \* per caller: what the call returned, None or Some(v)
    g_absent,      \* history: no local tier held the id when the call began
    g_upcalls,     \* history: calls of the upstream made by the call
    g_hit,         \* history: the entry a call returned from, with the
                   \* store's version at that moment
    s_hit          \* history: what the last search returned, from where

wvars == <<w_redis, w_rows, w_redis_card, w_redis_query, w_qcache, w_upstream,
           loads, quiet, g_pc, g_id, g_card, g_result, g_absent, g_upcalls,
           g_hit, s_hit>>

\* QueryExecutor::execute on a query the search handler accepted: the handler
\* validates, the executor parses again and translates.
VARIABLES
    e_pc,          \* "idle", "accepted", "rejected", "translated"
    e_query,       \* the text of the query
    e_ast,         \* None or Some(the AST the executor parsed)
    e_where        \* None or Some([text, params]) of build_where_clause

evars == <<e_pc, e_query, e_ast, e_where>>
zvars == <<rvars, kvars, wvars, evars>>
yvars == <<hvars, nvars, gvars, zvars>>
xvars == <<bvars, uvars, yvars>>
svars == <<tvars, qvars, lvars, pvars, xvars>>

\* ------------------------------------------------------------------------
\* CircuitStateData (src/circuit_breaker/state.rs)
\* ------------------------------------------------------------------------
CircuitStateData_new ==
    [state |-> "Closed", failure_count |-> 0, success_count |-> 0,
     last_failure_time |-> None, half_open_attempts |-> 0]

reset(s) ==
    [s EXCEPT !.failure_count = 0, !.success_count = 0, !.half_open_attempts = 0]

should_attempt_reset(s, timeout, t) ==
    IF s.state # "Open" THEN FALSE
    ELSE IF s.last_failure_time # None
         THEN t - s.last_failure_time[1] >= timeout
         ELSE FALSE

\* ------------------------------------------------------------------------
\* CircuitBreaker (src/circuit_breaker/mod.rs): the critical sections
\* ------------------------------------------------------------------------
\* state(): the record after the inspection; its .state is the value returned.
state(s, t) ==
    IF should_attempt_reset(s, config.timeout, t)
    THEN reset([s EXCEPT !.state = "HalfOpen"])
    ELSE s

\* The limit test off by one (> for >=): one probe too many is admitted.
half_open_limit_reached_late(s) ==
    s.half_open_attempts > config.half_open_max_requests

\* The half-open limit test of call().
half_open_limit_reached(s) ==
    s.half_open_attempts >= config.half_open_max_requests

on_success(s) ==
    CASE s.state = "Closed" -> [s EXCEPT !.failure_count = 0]
      [] s.state = "HalfOpen" ->
            LET s1 == [s EXCEPT !.success_count = @ + 1]
            IN  IF s1.success_count >= config.success_threshold
                THEN reset([s1 EXCEPT !.state = "Closed"])
                ELSE s1
      [] s.state = "Open" -> reset(s)

\* on_failure with the threshold test off by one (> for >=).
on_failure_late(s, t) ==
    LET s1 == [s EXCEPT !.failure_count = @ + 1, !.last_failure_time = Some(t)]
    IN  CASE s1.state = "Closed" ->
                IF s1.failure_count > config.failure_threshold
                THEN [s1 EXCEPT !.state = "Open"]
                ELSE s1
          [] s1.state = "HalfOpen" -> reset([s1 EXCEPT !.state = "Open"])
          [] s1.state = "Open" -> s1

on_failure(s, t) ==
    LET s1 == [s EXCEPT !.failure_count = @ + 1, !.last_failure_time = Some(t)]
    IN  CASE s1.state = "Closed" ->
                IF s1.failure_count >= config.failure_threshold
                THEN [s1 EXCEPT !.state = "Open"]
                ELSE s1
          [] s1.state = "HalfOpen" -> reset([s1 EXCEPT !.state = "Open"])
          [] s1.state = "Open" -> s1

\* ------------------------------------------------------------------------
\* ScryfallClient::make_request (src/scryfall/client.rs)
\* ------------------------------------------------------------------------
\* The error make_request builds for CircuitBreakerError::Open.
CircuitOpenError == "Circuit breaker is open - Scryfall API unavailable"
\* The context of the error of the request itself (CircuitBreakerError::Inner).
SendError == "Failed to send request to Scryfall"

\* Outcome of the operation f = client.get(url).send(): Ok(response) carries
\* the HTTP status, whatever it is; Err only when the request could not be sent.
SendOutcomes == {"2xx", "5xx", "neterr"}
send_is_ok(o) == o # "neterr"

Min(a, b) == IF a < b THEN a ELSE b

\* ------------------------------------------------------------------------
\* Actions
\* ------------------------------------------------------------------------
\* make_request up to the return of rate_limiter.acquire(): the loop of
\* acquire() leaves only once limiter.check() passes.
Acquire(p) ==
    /\ pc[p] = "idle"
    /\ tokens > 0
    /\ tokens' = tokens - 1
    /\ pc' = [pc EXCEPT ![p] = "call"]
    /\ result' = [result EXCEPT ![p] = "none"]
    /\ trace' = [trace EXCEPT ![p] = <<"acquire">>]
    /\ UNCHANGED <<config, cb, now, probe, current_state, opened_at, consec_fail, thresh_at,
                   consec_5xx, http5xx_at>>
    /\ UNCHANGED <<cvars, svars>>

\* call() whose Open arm logs the rejection but falls through to execute(f).
Call_fallthrough(p) ==
    /\ pc[p] = "call"
    /\ LET s1 == state(cb, now)
       IN  /\ cb' = s1
           /\ current_state' = [current_state EXCEPT
                                   ![p] = IF s1.state = "Open" THEN "none" ELSE s1.state]
           /\ opened_at' = IF s1.state = "Open" THEN opened_at ELSE None
           /\ CASE s1.state = "Open" ->
                     /\ pc' = [pc EXCEPT ![p] = "exec"]
                     /\ trace' = [trace EXCEPT ![p] = Append(@, "reject")]
                     /\ UNCHANGED result
                [] s1.state = "HalfOpen" ->
                     /\ pc' = [pc EXCEPT ![p] = "slot"]
                     /\ UNCHANGED <<result, trace>>
                [] s1.state = "Closed" ->
                     /\ pc' = [pc EXCEPT ![p] = "exec"]
                     /\ trace' = [trace EXCEPT ![p] = Append(@, "admit")]
                     /\ UNCHANGED result
    /\ UNCHANGED <<config, now, tokens, probe, consec_fail, thresh_at, consec_5xx, http5xx_at>>
    /\ UNCHANGED <<cvars, svars>>

\* call(): `let current_state = self.state().await` and the match on it.
Call(p) ==
    /\ pc[p] = "call"
    /\ LET s1 == state(cb, now)
       IN  /\ cb' = s1
           /\ current_state' = [current_state EXCEPT
                                   ![p] = IF s1.state = "Open" THEN "none" ELSE s1.state]
           /\ opened_at' = IF s1.state = "Open" THEN opened_at ELSE None
           /\ CASE s1.state = "Open" ->
                     /\ pc' = [pc EXCEPT ![p] = "idle"]
                     /\ result' = [result EXCEPT ![p] = CircuitOpenError]
                     /\ trace' = [trace EXCEPT ![p] = Append(@, "reject")]
                [] s1.state = "HalfOpen" ->
                     /\ pc' = [pc EXCEPT ![p] = "slot"]
                     /\ UNCHANGED <<result, trace>>
                [] s1.state = "Closed" ->
                     /\ pc' = [pc EXCEPT ![p] = "exec"]
                     /\ trace' = [trace EXCEPT ![p] = Append(@, "admit")]
                     /\ UNCHANGED result
    /\ UNCHANGED <<config, now, tokens, probe, consec_fail, thresh_at, consec_5xx, http5xx_at>>
    /\ UNCHANGED <<cvars, svars>>

\* call(), HalfOpen arm: the second critical section (lines 105-111).
TakeSlot(p) ==
    /\ pc[p] = "slot"
    /\ IF half_open_limit_reached(cb)
       THEN /\ pc' = [pc EXCEPT ![p] = "idle"]
            /\ result' = [result EXCEPT ![p] = CircuitOpenError]
            /\ trace' = [trace EXCEPT ![p] = Append(@, "reject")]
            /\ current_state' = [current_state EXCEPT ![p] = "none"]
            /\ UNCHANGED <<cb, probe>>
       ELSE /\ cb' = [cb EXCEPT !.half_open_attempts = @ + 1]
            /\ probe' = [probe EXCEPT ![p] = TRUE]
            /\ pc' = [pc EXCEPT ![p] = "exec"]
            /\ trace' = [trace EXCEPT ![p] = Append(@, "admit")]
            /\ UNCHANGED <<result, current_state>>
    /\ UNCHANGED <<config, now, tokens, opened_at, consec_fail,
                   thresh_at, consec_5xx, http5xx_at>>
    /\ UNCHANGED <<cvars, svars>>

\* execute(): f starts, that is the HTTP request is sent.
Send(p) ==
    /\ pc[p] = "exec"
    /\ pc' = [pc EXCEPT ![p] = "inflight"]
    /\ trace' = [trace EXCEPT ![p] = Append(@, "send")]
    /\ UNCHANGED <<config, cb, now, tokens, current_state, probe, result,
                   opened_at, consec_fail, thresh_at, consec_5xx, http5xx_at>>
    /\ UNCHANGED <<cvars, svars>>

\* execute(), Ok arm: f returned Ok(response) with some status; on_success().
OnSuccess(p) ==
    /\ pc[p] = "inflight"
    /\ \E o \in SendOutcomes :
         /\ send_is_ok(o)
         /\ result' = [result EXCEPT ![p] = "Ok"]
         /\ consec_5xx' = IF o = "5xx"
                          THEN Min(consec_5xx + 1, config.failure_threshold)
                          ELSE 0
         /\ http5xx_at' = IF o # "5xx" THEN None
                          ELSE IF consec_5xx + 1 = config.failure_threshold
                               THEN Some(now) ELSE http5xx_at
    /\ cb' = on_success(cb)
    /\ opened_at' = IF cb'.state = "Open" THEN opened_at ELSE None
    /\ consec_fail' = 0
    /\ thresh_at' = None
    /\ pc' = [pc EXCEPT ![p] = "idle"]
    /\ probe' = [probe EXCEPT ![p] = FALSE]
    /\ current_state' = [current_state EXCEPT ![p] = "none"]
    /\ UNCHANGED <<config, now, tokens, trace>>
    /\ UNCHANGED <<cvars, svars>>

\* execute(), Err arm: f returned Err; on_failure().
OnFailure(p) ==
    /\ pc[p] = "inflight"
    /\ \E o \in SendOutcomes :
         /\ ~send_is_ok(o)
         /\ result' = [result EXCEPT ![p] = SendError]
    /\ cb' = on_failure(cb, now)
    /\ opened_at' = IF cb.state # "Open" /\ cb'.state = "Open"
                    THEN Some(now) ELSE opened_at
    /\ consec_fail' = Min(consec_fail + 1, config.failure_threshold)
    /\ thresh_at' = IF consec_fail < config.failure_threshold
                       /\ consec_fail' = config.failure_threshold
                    THEN Some(now) ELSE thresh_at
    /\ consec_5xx' = 0
    /\ http5xx_at' = None
    /\ pc' = [pc EXCEPT ![p] = "idle"]
    /\ probe' = [probe EXCEPT ![p] = FALSE]
    /\ current_state' = [current_state EXCEPT ![p] = "none"]
    /\ UNCHANGED <<config, now, tokens, trace>>
    /\ UNCHANGED <<cvars, svars>>

\* One clock unit (one second) passes; the quota is replenished.
Tick ==
    /\ now < MaxTime
    /\ now' = now + 1
    /\ tokens' = MaxRate
    /\ UNCHANGED <<config, cb, pc, current_state, probe, result, trace,
                   opened_at, consec_fail, thresh_at, consec_5xx, http5xx_at>>
    /\ UNCHANGED <<cvars, svars>>

\* ========================================================================
\* Part II : CacheManager read path (src/cache/manager.rs) over the
\*           distributed tier (src/cache/redis.rs), the store and the
\*           upstream, with concurrent writers.
\* ========================================================================
CardIds == 1..MaxCards
\* The read requests under observation, one at a time; every other request
\* and the bulk loader act through the writer actions below.
Readers == {1}

\* The code order of the tiers of one read operation.
TierOrder == <<"redis", "qcache", "store", "upstream">>
TierRank(t) == CHOOSE i \in DOMAIN TierOrder : TierOrder[i] = t

\* The tiers an operation consults, in the order of its code.
op_tiers(kind) ==
    (IF redis_enabled THEN <<"redis">> ELSE <<>>) \o
    (CASE kind = "search" -> <<"qcache", "store", "upstream">>
       [] kind = "get_card" -> <<"store", "upstream">>
       [] kind = "autocomplete" -> <<"store">>)

\* search that asks the upstream right after the durable result-set cache.
tier_after_skipping_store(kind, t) ==
    IF kind = "search" /\ t = "qcache" THEN "upstream"
    ELSE LET ts == op_tiers(kind)
             i == CHOOSE j \in DOMAIN ts : ts[j] = t
         IN  IF i < Len(ts) THEN ts[i + 1] ELSE "none"

\* The tier the code falls through to after tier t gave nothing usable.
tier_after(kind, t) ==
    LET ts == op_tiers(kind)
        i == CHOOSE j \in DOMAIN ts : ts[j] = t
    IN  IF i < Len(ts) THEN ts[i + 1] ELSE "none"

first_tier(kind) == op_tiers(kind)[1]

\* A dereference that accepts whatever the store returned without error.
cards_usable_any(ok, cards) == ok

\* The guard `Ok(cards) if !cards.is_empty()` of search.
cards_usable(ok, cards) == ok /\ cards # {}

\* A cache write whose error is propagated with `?`.
best_effort_propagating(ok) == ok

\* `.ok()` on the Result of a cache write: the request goes on either way.
best_effort(ok) == TRUE

\* db.get_cards_by_ids(ids): the cards of the store among ids.
get_cards_by_ids(ids) == ids \cap store_cards

\* The n smallest ids of S (ORDER BY name LIMIT n).
TakeFirst(S, n) == {c \in S : Cardinality({d \in S : d < c}) < n}

\* query_executor.execute(query, limit) on the current store.
execute(limit) ==
    IF limit = None THEN store_cards ELSE TakeFirst(store_cards, limit[1])

\* The cache writes that follow a result, in code order.
writes_after(kind, tier) ==
    CASE kind = "search" /\ tier = "qcache" ->
            IF redis_enabled THEN <<"set_query_results">> ELSE <<>>
      [] kind = "search" /\ tier = "store" ->
            <<"store_query_cache">> \o
            (IF redis_enabled THEN <<"set_query_results">> ELSE <<>>)
      [] kind = "search" /\ tier = "upstream" ->
            <<"store_query_cache">> \o
            (IF redis_enabled THEN <<"set_query_results", "set_cards">> ELSE <<>>)
      [] kind = "get_card" /\ tier \in {"store", "upstream"} ->
            IF redis_enabled THEN <<"set_card">> ELSE <<>>
      [] kind = "autocomplete" /\ tier = "store" ->
            IF redis_enabled THEN <<"set_autocomplete">> ELSE <<>>
      [] OTHER -> <<>>

Ok(cards) == [ok |-> TRUE, cards |-> cards]
Err(msg) == [ok |-> FALSE, err |-> msg]
NoResult == [ok |-> FALSE, err |-> "none"]

OptSets == {None} \cup {Some(S) : S \in SUBSET CardIds}

\* Reader r moves on: to the position of tier t, or out with result res.
GoTier(r, t) == rpc' = [rpc EXCEPT ![r] = t]
Return(r, res) ==
    /\ rpc' = [rpc EXCEPT ![r] = "idle"]
    /\ rresult' = [rresult EXCEPT ![r] = res]
    /\ rtodo' = [rtodo EXCEPT ![r] = <<>>]
    /\ rids' = [rids EXCEPT ![r] = {}]
    /\ rcards' = [rcards EXCEPT ![r] = {}]
\* Reader r has its result `cards` from tier t and starts its write-backs.
GoWrite(r, t, cards) ==
    /\ rcards' = [rcards EXCEPT ![r] = cards]
    /\ rtodo' = [rtodo EXCEPT ![r] = writes_after(rop[r].kind, t)]
    /\ rpc' = [rpc EXCEPT ![r] = "write"]
\* Reader r has consulted tier t: whether the tier answered without error and
\* how many cards it gave; `entry` when the cards are those of the ids of a
\* result-set entry.
Note(r, t, ok, found) ==
    rtrace' = [rtrace EXCEPT ![r] =
                 Append(@, [tier |-> t, ok |-> ok, entry |-> FALSE,
                            n |-> Cardinality(found)])]
NoteDeref(r, t, ok, found) ==
    rtrace' = [rtrace EXCEPT ![r] =
                 Append(@, [tier |-> t, ok |-> ok, entry |-> TRUE,
                            n |-> Cardinality(found)])]

\* The id lists given to get_cards_batch.
BatchRequests == UNION {[1..n -> CardIds] : n \in 0..MaxBatch}

\* The ids that occur in a list.
Elems(ids) == {ids[i] : i \in DOMAIN ids}

\* The loop over ids that pushes every id outside by_id, repeats included.
RECURSIVE missing_with_repeats(_, _)
missing_with_repeats(ids, by_id) ==
    IF ids = <<>> THEN <<>>
    ELSE LET rest == missing_with_repeats(SubSeq(ids, 1, Len(ids) - 1), by_id)
             id == ids[Len(ids)]
         IN  IF id \notin by_id THEN Append(rest, id) ELSE rest

\* The loop `if !by_id.contains_key(id) && seen.insert(*id) { push }` over ids.
RECURSIVE missing_of(_, _)
missing_of(ids, by_id) ==
    IF ids = <<>> THEN <<>>
    ELSE LET rest == missing_of(SubSeq(ids, 1, Len(ids) - 1), by_id)
             id == ids[Len(ids)]
         IN  IF id \notin by_id /\ id \notin Elems(rest)
             THEN Append(rest, id) ELSE rest

\* ids.iter().filter_map(|id| by_id.get(id).cloned()).collect()
cards_in_order(ids, by_id) == SelectSeq(ids, LAMBDA id : id \in by_id)

\* scryfall_client.get_cards_by_ids_collection(missing): the cards the
\* upstream has among the ids asked for.
get_cards_by_ids_collection(missing) == Elems(missing) \cap upstream_cards

BatchOk(cards, missing) == [ok |-> TRUE, cards |-> cards, missing |-> missing]

\* A read operation is entered: search(query, limit), get_card(id),
\* autocomplete(prefix), search_paginated(query, page, page_size), whose
\* callers pass page >= 1 and page_size >= 1, or get_cards_batch(ids,
\* fetch_missing). A short prefix and an empty id list return at once.
Start(r) ==
    /\ rpc[r] = "idle"
    /\ \E o \in [kind : {"search"}, limit : {None, Some(1)}]
            \cup [kind : {"get_card"}, id : CardIds]
            \cup [kind : {"autocomplete"}, short : BOOLEAN]
            \cup [kind : {"search_paginated"}, page : 1..MaxPage,
                                              page_size : 1..MaxPageSize]
            \cup [kind : {"get_cards_batch"}, ids : BatchRequests,
                                             fetch_missing : BOOLEAN] :
         /\ o.kind = workload
         /\ rop' = [rop EXCEPT ![r] = o]
         /\ CASE o.kind = "autocomplete" /\ o.short ->
                    /\ rpc' = [rpc EXCEPT ![r] = "idle"]
                    /\ rresult' = [rresult EXCEPT ![r] = Ok({})]
              [] o.kind = "get_cards_batch" /\ o.ids = <<>> ->
                    /\ rpc' = [rpc EXCEPT ![r] = "idle"]
                    /\ rresult' = [rresult EXCEPT ![r] = BatchOk(<<>>, <<>>)]
              [] OTHER ->
                    /\ rpc' = [rpc EXCEPT ![r] =
                                 CASE o.kind = "search_paginated" -> "pg_count"
                                   [] o.kind = "get_cards_batch" -> "batch_store"
                                   [] OTHER -> first_tier(o.kind)]
                    /\ rresult' = [rresult EXCEPT ![r] = NoResult]
    /\ rids' = [rids EXCEPT ![r] = {}]
    /\ rcards' = [rcards EXCEPT ![r] = {}]
    /\ rtodo' = [rtodo EXCEPT ![r] = <<>>]
    /\ rtrace' = [rtrace EXCEPT ![r] = <<>>]
    /\ rwfail' = [rwfail EXCEPT ![r] = FALSE]
    /\ UNCHANGED <<workload, redis_enabled, redis_query, redis_cards, redis_auto,
                   query_cache, store_cards, upstream_cards>>
    /\ UNCHANGED rtotal
    /\ UNCHANGED <<vars, svars>>

\* Tier 1, the distributed tier: get_query_results / get_card /
\* get_autocomplete. A read error is a miss.
RedisGet(r) ==
    /\ rpc[r] = "redis"
    /\ LET k == rop[r].kind
           entry == CASE k = "search" -> redis_query
                      [] k = "get_card" ->
                            IF rop[r].id \in redis_cards THEN Some({rop[r].id}) ELSE None
                      [] k = "autocomplete" -> redis_auto
       IN  \E readOk \in BOOLEAN :
             IF readOk /\ entry # None
             THEN IF k = "search"
                  THEN /\ rids' = [rids EXCEPT ![r] = entry[1]]
                       /\ rpc' = [rpc EXCEPT ![r] = "redis_deref"]
                       /\ UNCHANGED <<rtrace, rresult, rtodo, rcards>>
                  ELSE /\ Note(r, "redis", TRUE, entry[1])
                       /\ Return(r, Ok(entry[1]))
             ELSE /\ Note(r, "redis", readOk, {})
                  /\ GoTier(r, tier_after(k, "redis"))
                  /\ UNCHANGED <<rids, rcards, rresult, rtodo>>
    /\ UNCHANGED <<workload, redis_enabled, redis_query, redis_cards, redis_auto,
                   query_cache, store_cards, upstream_cards, rop, rwfail>>
    /\ UNCHANGED rtotal
    /\ UNCHANGED <<vars, svars>>

\* search, tier 1: the ids of the distributed entry are dereferenced.
RedisDeref(r) ==
    /\ rpc[r] = "redis_deref"
    /\ \E dbOk \in BOOLEAN :
         LET cards == IF dbOk THEN get_cards_by_ids(rids[r]) ELSE {}
         IN  /\ NoteDeref(r, "redis", dbOk, cards)
             /\ IF cards_usable(dbOk, cards)
                THEN Return(r, Ok(cards))
                ELSE /\ GoTier(r, tier_after("search", "redis"))
                     /\ UNCHANGED <<rresult, rtodo, rcards, rids>>
    /\ UNCHANGED <<workload, redis_enabled, redis_query, redis_cards, redis_auto,
                   query_cache, store_cards, upstream_cards, rop, rwfail>>
    /\ UNCHANGED rtotal
    /\ UNCHANGED <<vars, svars>>

\* get_query_cache whose error is taken for a miss, as the distributed tier's.
QueryCacheGet_miss(r) ==
    /\ rpc[r] = "qcache"
    /\ \E dbOk \in BOOLEAN :
         IF dbOk /\ query_cache # None
         THEN /\ rids' = [rids EXCEPT ![r] = query_cache[1]]
              /\ rpc' = [rpc EXCEPT ![r] = "qcache_deref"]
              /\ UNCHANGED <<rtrace, rresult, rtodo, rcards>>
         ELSE /\ Note(r, "qcache", dbOk, {})
              /\ GoTier(r, tier_after("search", "qcache"))
              /\ UNCHANGED <<rids, rresult, rtodo, rcards>>
    /\ UNCHANGED <<workload, redis_enabled, redis_query, redis_cards, redis_auto,
                   query_cache, store_cards, upstream_cards, rop, rwfail>>
    /\ UNCHANGED rtotal
    /\ UNCHANGED <<vars, svars>>

\* search, tier 2: db.get_query_cache(fp)?; an error ends the request.
QueryCacheGet(r) ==
    /\ rpc[r] = "qcache"
    /\ \E dbOk \in BOOLEAN :
         IF ~dbOk
         THEN /\ Note(r, "qcache", FALSE, {})
              /\ Return(r, Err("store"))
         ELSE IF query_cache # None
              THEN /\ rids' = [rids EXCEPT ![r] = query_cache[1]]
                   /\ rpc' = [rpc EXCEPT ![r] = "qcache_deref"]
                   /\ UNCHANGED <<rtrace, rresult, rtodo, rcards>>
              ELSE /\ Note(r, "qcache", TRUE, {})
                   /\ GoTier(r, tier_after("search", "qcache"))
                   /\ UNCHANGED <<rids, rresult, rtodo, rcards>>
    /\ UNCHANGED <<workload, redis_enabled, redis_query, redis_cards, redis_auto,
                   query_cache, store_cards, upstream_cards, rop, rwfail>>
    /\ UNCHANGED rtotal
    /\ UNCHANGED <<vars, svars>>

\* search, tier 2: the ids of the durable entry are dereferenced.
QueryCacheDeref(r) ==
    /\ rpc[r] = "qcache_deref"
    /\ \E dbOk \in BOOLEAN :
         LET cards == IF dbOk THEN get_cards_by_ids(rids[r]) ELSE {}
         IN  /\ NoteDeref(r, "qcache", dbOk, cards)
             /\ IF cards_usable(dbOk, cards)
                THEN GoWrite(r, "qcache", cards)
                ELSE /\ GoTier(r, tier_after("search", "qcache"))
                     /\ UNCHANGED <<rtodo, rcards>>
    /\ UNCHANGED <<workload, redis_enabled, redis_query, redis_cards, redis_auto,
                   query_cache, store_cards, upstream_cards, rop, rids, rresult,
                   rwfail>>
    /\ UNCHANGED rtotal
    /\ UNCHANGED <<vars, svars>>

\* Tier 3, the store: query_executor.execute / db.get_card_by_id /
\* db.autocomplete_card_names.
StoreRead(r) ==
    /\ rpc[r] = "store"
    /\ LET k == rop[r].kind
       IN  \E dbOk \in BOOLEAN :
             LET cards == CASE ~dbOk -> {}
                            [] dbOk /\ k = "search" -> execute(rop[r].limit)
                            [] dbOk /\ k = "get_card" -> {rop[r].id} \cap store_cards
                            [] dbOk /\ k = "autocomplete" -> store_cards
             IN  /\ Note(r, "store", dbOk, cards)
                 /\ CASE k = "autocomplete" /\ ~dbOk ->
                            Return(r, Err("store"))
                      [] k = "autocomplete" /\ dbOk ->
                            /\ GoWrite(r, "store", cards)
                            /\ UNCHANGED <<rids, rresult>>
                      [] k # "autocomplete" /\ cards_usable(dbOk, cards) ->
                            /\ GoWrite(r, "store", cards)
                            /\ rids' = [rids EXCEPT ![r] = cards]
                            /\ UNCHANGED rresult
                      [] k # "autocomplete" /\ ~cards_usable(dbOk, cards) ->
                            /\ GoTier(r, tier_after(k, "store"))
                            /\ UNCHANGED <<rids, rcards, rresult, rtodo>>
    /\ UNCHANGED <<workload, redis_enabled, redis_query, redis_cards, redis_auto,
                   query_cache, store_cards, upstream_cards, rop, rwfail>>
    /\ UNCHANGED rtotal
    /\ UNCHANGED <<vars, svars>>

\* Tier 4, the upstream: scryfall_client.search_cards(query)? /
\* get_card_by_id(id)?; an error ends the request.
UpstreamRead(r) ==
    /\ rpc[r] = "upstream"
    /\ LET k == rop[r].kind
       IN  \E upOk \in BOOLEAN :
             LET cards == CASE ~upOk -> {}
                            [] upOk /\ k = "search" -> upstream_cards
                            [] upOk /\ k = "get_card" -> {rop[r].id} \cap upstream_cards
             IN  /\ Note(r, "upstream", upOk, cards)
                 /\ IF ~upOk
                    THEN Return(r, Err("upstream"))
                    ELSE IF cards # {}
                         THEN /\ rcards' = [rcards EXCEPT ![r] = cards]
                              /\ rids' = [rids EXCEPT ![r] = cards]
                              /\ rpc' = [rpc EXCEPT ![r] = "insert"]
                              /\ UNCHANGED <<rresult, rtodo>>
                         ELSE Return(r, Ok({}))
    /\ UNCHANGED <<workload, redis_enabled, redis_query, redis_cards, redis_auto,
                   query_cache, store_cards, upstream_cards, rop, rwfail>>
    /\ UNCHANGED rtotal
    /\ UNCHANGED <<vars, svars>>

\* insert_cards_batch whose error is discarded with .ok(): the request goes
\* on to its cache writes with cards the store may not hold.
Insert_best_effort(r) ==
    /\ rpc[r] = "insert"
    /\ \E dbOk \in BOOLEAN :
         /\ store_cards' = IF dbOk THEN store_cards \cup rcards[r]
                           ELSE store_cards
         /\ GoWrite(r, "upstream", rcards[r])
         /\ UNCHANGED <<rresult, rids>>
    /\ UNCHANGED <<workload, redis_enabled, redis_query, redis_cards, redis_auto,
                   query_cache, upstream_cards, rop, rtrace, rwfail>>
    /\ UNCHANGED rtotal
    /\ UNCHANGED <<vars, svars>>

\* db.insert_cards_batch(&cards)? after an upstream answer.
Insert(r) ==
    /\ rpc[r] = "insert"
    /\ \E dbOk \in BOOLEAN :
         IF dbOk
         THEN /\ store_cards' = store_cards \cup rcards[r]
              /\ GoWrite(r, "upstream", rcards[r])
              /\ UNCHANGED <<rresult, rids>>
         ELSE /\ Return(r, Err("store"))
              /\ UNCHANGED store_cards
    /\ UNCHANGED <<workload, redis_enabled, redis_query, redis_cards, redis_auto,
                   query_cache, upstream_cards, rop, rtrace, rwfail>>
    /\ UNCHANGED rtotal
    /\ UNCHANGED <<vars, svars>>

\* The next cache write of the request: store_query_cache(..).ok(),
\* set_query_results(..).ok(), set_cards(..).ok(), set_card(..).ok() or
\* set_autocomplete(..).ok(). A write stores its value or fails; set_cards
\* stores the cards whose own set_card succeeded and returns Ok.
WriteBack(r) ==
    /\ rpc[r] = "write"
    /\ rtodo[r] # <<>>
    /\ LET w == Head(rtodo[r])
       IN  \E wOk \in BOOLEAN, part \in SUBSET rcards[r] :
             /\ (w # "set_cards" => part = rcards[r])
             /\ (w = "set_cards" => wOk)
             /\ query_cache' = IF w = "store_query_cache" /\ wOk
                               THEN Some(rids[r]) ELSE query_cache
             /\ redis_query' = IF w = "set_query_results" /\ wOk
                               THEN Some(rids[r]) ELSE redis_query
             /\ redis_cards' = IF w \in {"set_cards", "set_card"} /\ wOk
                               THEN redis_cards \cup part ELSE redis_cards
             /\ redis_auto' = IF w = "set_autocomplete" /\ wOk
                              THEN Some(rcards[r]) ELSE redis_auto
             /\ rwfail' = [rwfail EXCEPT ![r] = @ \/ ~wOk \/ part # rcards[r]]
             /\ IF best_effort(wOk)
                THEN /\ rtodo' = [rtodo EXCEPT ![r] = Tail(@)]
                     /\ UNCHANGED <<rpc, rresult, rids, rcards>>
                ELSE Return(r, Err("cache write"))
    /\ UNCHANGED <<workload, redis_enabled, store_cards, upstream_cards, rop, rtrace>>
    /\ UNCHANGED rtotal
    /\ UNCHANGED <<vars, svars>>

\* All cache writes are behind: the operation returns its cards.
Finish(r) ==
    /\ rpc[r] = "write"
    /\ rtodo[r] = <<>>
    /\ Return(r, Ok(rcards[r]))
    /\ UNCHANGED <<workload, redis_enabled, redis_query, redis_cards, redis_auto,
                   query_cache, store_cards, upstream_cards, rop, rtrace, rwfail>>
    /\ UNCHANGED rtotal
    /\ UNCHANGED <<vars, svars>>

\* ------------------------------------------------------------------------
\* CacheManager::search_paginated
\* ------------------------------------------------------------------------
\* The position, from 1, of card c in the list of S; cards are listed by
\* ascending id, which stands for the order of the list at hand.
PosIn(S, c) == Cardinality({d \in S : d <= c})

\* cards[start..end]: the elements at positions start + 1 .. end of the list.
Slice(S, start, end) == {c \in S : PosIn(S, c) > start /\ PosIn(S, c) <= end}

\* (page.saturating_sub(1)) * page_size
page_offset(page, page_size) == (IF page > 0 THEN page - 1 ELSE 0) * page_size

\* SELECT .. ORDER BY name LIMIT page_size OFFSET offset over the store.
page_of(S, page, page_size) ==
    LET offset == page_offset(page, page_size)
    IN  Slice(S, offset, offset + page_size)

\* The in-memory pagination of the upstream's cards.
paginate(S, page, page_size) ==
    LET total == Cardinality(S)
        start == page_offset(page, page_size)
        end == Min(start + page_size, total)
    IN  IF start < total THEN Slice(S, start, end) ELSE {}

\* A local answer that counts as a hit only when the page itself has cards.
page_hit_cards_only(cards, total) == cards # {}

\* `if !cards.is_empty() || total > 0`
page_hit(cards, total) == cards # {} \/ total > 0

PageOk(cards, total) == [ok |-> TRUE, cards |-> cards, total |-> total]

\* execute_paginated, first query: SELECT COUNT(*); a parse error or a failed
\* count makes execute_paginated return Err.
PgCount(r) ==
    /\ rpc[r] = "pg_count"
    /\ \E dbOk \in BOOLEAN :
         IF dbOk
         THEN /\ rtotal' = [rtotal EXCEPT ![r] = Cardinality(store_cards)]
              /\ Note(r, "count", TRUE, store_cards)
              /\ GoTier(r, "pg_page")
         ELSE /\ Note(r, "count", FALSE, {})
              /\ GoTier(r, "pg_upstream")
              /\ UNCHANGED rtotal
    /\ UNCHANGED <<workload, redis_enabled, redis_query, redis_cards, redis_auto,
                   query_cache, store_cards, upstream_cards, rop, rids, rcards,
                   rtodo, rresult, rwfail>>
    /\ UNCHANGED <<vars, svars>>

\* execute_paginated, second query: the page; then the match of
\* search_paginated on the result.
PgPage(r) ==
    /\ rpc[r] = "pg_page"
    /\ \E dbOk \in BOOLEAN :
         LET cards == IF dbOk
                      THEN page_of(store_cards, rop[r].page, rop[r].page_size)
                      ELSE {}
         IN  /\ Note(r, "page", dbOk, cards)
             /\ IF dbOk /\ page_hit(cards, rtotal[r])
                THEN /\ Return(r, PageOk(cards, rtotal[r]))
                     /\ rtotal' = [rtotal EXCEPT ![r] = 0]
                ELSE /\ GoTier(r, "pg_upstream")
                     /\ UNCHANGED <<rresult, rtodo, rids, rcards, rtotal>>
    /\ UNCHANGED <<workload, redis_enabled, redis_query, redis_cards, redis_auto,
                   query_cache, store_cards, upstream_cards, rop, rwfail>>
    /\ UNCHANGED <<vars, svars>>

\* The fallback: scryfall_client.search_cards(query)?; an error ends the
\* request, no card ends it with the empty page.
PgUpstream(r) ==
    /\ rpc[r] = "pg_upstream"
    /\ \E upOk \in BOOLEAN :
         LET cards == IF upOk THEN upstream_cards ELSE {}
         IN  /\ Note(r, "upstream", upOk, cards)
             /\ IF ~upOk
                THEN /\ Return(r, Err("upstream"))
                     /\ rtotal' = [rtotal EXCEPT ![r] = 0]
                ELSE IF cards # {}
                     THEN /\ rcards' = [rcards EXCEPT ![r] = cards]
                          /\ GoTier(r, "pg_insert")
                          /\ UNCHANGED <<rresult, rtodo, rids, rtotal>>
                     ELSE /\ Return(r, PageOk(paginate(cards, rop[r].page,
                                                       rop[r].page_size), 0))
                          /\ rtotal' = [rtotal EXCEPT ![r] = 0]
    /\ UNCHANGED <<workload, redis_enabled, redis_query, redis_cards, redis_auto,
                   query_cache, store_cards, upstream_cards, rop, rwfail>>
    /\ UNCHANGED <<vars, svars>>

\* db.insert_cards_batch(&cards)? and the in-memory pagination.
PgInsert(r) ==
    /\ rpc[r] = "pg_insert"
    /\ \E dbOk \in BOOLEAN :
         IF dbOk
         THEN /\ store_cards' = store_cards \cup rcards[r]
              /\ Return(r, PageOk(paginate(rcards[r], rop[r].page,
                                           rop[r].page_size),
                                  Cardinality(rcards[r])))
         ELSE /\ Return(r, Err("store"))
              /\ UNCHANGED store_cards
    /\ rtotal' = [rtotal EXCEPT ![r] = 0]
    /\ UNCHANGED <<workload, redis_enabled, redis_query, redis_cards, redis_auto,
                   query_cache, upstream_cards, rop, rtrace, rwfail>>
    /\ UNCHANGED <<vars, svars>>

\* ------------------------------------------------------------------------
\* CacheManager::get_cards_batch
\* ------------------------------------------------------------------------
\* db.get_cards_by_ids(ids)?, the index by id and the first missing list; the
\* request returns here unless missing ids are to be fetched.
BatchStore(r) ==
    /\ rpc[r] = "batch_store"
    /\ \E dbOk \in BOOLEAN :
         LET by_id == get_cards_by_ids(Elems(rop[r].ids))
             missing_ids == missing_of(rop[r].ids, by_id)
         IN  /\ Note(r, "store", dbOk, IF dbOk THEN by_id ELSE {})
             /\ IF ~dbOk
                THEN Return(r, Err("store"))
                ELSE IF rop[r].fetch_missing /\ missing_ids # <<>>
                     THEN /\ rcards' = [rcards EXCEPT ![r] = by_id]
                          /\ rids' = [rids EXCEPT ![r] = missing_ids]
                          /\ GoTier(r, "batch_fetch")
                          /\ UNCHANGED <<rresult, rtodo>>
                     ELSE Return(r, BatchOk(cards_in_order(rop[r].ids, by_id),
                                            missing_ids))
    /\ UNCHANGED <<workload, redis_enabled, redis_query, redis_cards, redis_auto,
                   query_cache, store_cards, upstream_cards, rop, rtotal, rwfail>>
    /\ UNCHANGED <<vars, svars>>

\* The fetch_missing block: get_cards_by_ids_collection(&missing_ids)?, then
\* insert_cards_batch(&fetched)? when cards came, then the second missing list.
BatchFetch(r) ==
    /\ rpc[r] = "batch_fetch"
    /\ \E upOk, dbOk \in BOOLEAN :
         LET fetched == get_cards_by_ids_collection(rids[r])
             by_id == rcards[r] \cup fetched
         IN  /\ Note(r, "upstream", upOk, IF upOk THEN fetched ELSE {})
             /\ IF ~upOk
                THEN /\ Return(r, Err("upstream"))
                     /\ UNCHANGED store_cards
                ELSE IF fetched # {} /\ ~dbOk
                     THEN /\ Return(r, Err("store"))
                          /\ UNCHANGED store_cards
                     ELSE /\ store_cards' = store_cards \cup fetched
                          /\ Return(r, BatchOk(cards_in_order(rop[r].ids, by_id),
                                               missing_of(rop[r].ids, by_id)))
    /\ UNCHANGED <<workload, redis_enabled, redis_query, redis_cards, redis_auto,
                   query_cache, upstream_cards, rop, rtotal, rwfail>>
    /\ UNCHANGED <<vars, svars>>

\* A concurrent writer: the bulk loader upserts a card into the store.
BulkUpsert ==
    /\ \E c \in CardIds : store_cards' = store_cards \cup {c}
    /\ UNCHANGED <<workload, redis_enabled, redis_query, redis_cards, redis_auto,
                   query_cache, upstream_cards, rpc, rop, rids, rcards, rtodo,
                   rtrace, rresult, rwfail>>
    /\ UNCHANGED rtotal
    /\ UNCHANGED <<vars, svars>>

\* A concurrent writer: another request's write-back replaces a result-set
\* entry, or an entry expires.
OtherWriteBack ==
    /\ \E e \in OptSets :
         \/ /\ workload = "search"
            /\ query_cache' = e
            /\ UNCHANGED <<redis_query, redis_cards, redis_auto>>
         \/ /\ workload = "search" /\ redis_enabled
            /\ redis_query' = e
            /\ UNCHANGED <<query_cache, redis_cards, redis_auto>>
         \/ /\ workload = "get_card" /\ redis_enabled /\ e # None
            /\ redis_cards' = e[1]
            /\ UNCHANGED <<query_cache, redis_query, redis_auto>>
         \/ /\ workload = "autocomplete" /\ redis_enabled
            /\ redis_auto' = e
            /\ UNCHANGED <<query_cache, redis_query, redis_cards>>
    /\ UNCHANGED <<workload, redis_enabled, store_cards,
                   upstream_cards, rpc, rop, rids, rcards, rtodo, rtrace,
                   rresult, rwfail>>
    /\ UNCHANGED rtotal
    /\ UNCHANGED <<vars, svars>>

\* ========================================================================
\* Part III : the query executor's paging (src/query/executor.rs), the
\*            time-stamped rows of the stores (src/db/postgres/queries.rs,
\*            src/db/sqlite/queries.rs) and the bulk refresh task
\*            (src/scryfall/bulk_loader.rs, src/background/bulk_refresh.rs).
\* ========================================================================
Names == 1..MaxNames
PagedIds == 1..MaxPagedCards

\* The lists without repetition of the cards S.
Perms(S) ==
    {f \in [1..Cardinality(S) -> S] :
        \A i, j \in 1..Cardinality(S) : i # j => f[i] # f[j]}

\* The lists `ORDER BY name` may return for the cards S: names ascending; the
\* order of cards of equal name is left to the engine and may differ from one
\* query to the next.
order_by_name(S) ==
    {f \in Perms(S) :
        \A i, j \in 1..Cardinality(S) : i < j => pnames[f[i]] <= pnames[f[j]]}

\* LIMIT page_size OFFSET (page.saturating_sub(1)) * page_size of a list.
page_rows(list, page, page_size) ==
    LET offset == page_offset(page, page_size)
    IN  SubSeq(list, offset + 1, Min(offset + page_size, Len(list)))

\* total.div_ceil(page_size)
total_pages(total, page_size) == (total + page_size - 1) \div page_size

\* A client reads the pages 1, 2, .. of one query from execute_paginated, one
\* call per page, the store unchanged in between.
FetchPage ==
    /\ pnext <= total_pages(Cardinality(pcards), psize)
    /\ \E list \in order_by_name(pcards) :
         pconcat' = pconcat \o page_rows(list, pnext, psize)
    /\ pnext' = pnext + 1
    /\ UNCHANGED <<pnames, pcards, psize>>
    /\ UNCHANGED <<vars, cvars, xvars, tvars, qvars, lvars>>

\* ------------------------------------------------------------------------
\* The query_cache row of one query_hash, in either backend.
\* ------------------------------------------------------------------------

Backends == {"postgres", "sqlite"}

\* store_query_cache: the upsert of either backend at time t. Postgres keeps
\* ttl_hours and last_accessed; SQLite keeps ttl_hours, created_at and
\* expires_at = now + ttl_hours and has no last_accessed column.
stored_row(b, ttl_hours, t) ==
    IF b = "postgres"
    THEN [ttl_hours |-> ttl_hours, last_accessed |-> t]
    ELSE [ttl_hours |-> ttl_hours, created_at |-> t, expires_at |-> t + ttl_hours]

\* The rows get_query_cache's statement selects at time t: Postgres has
\* WHERE query_hash = $1 only, SQLite adds AND expires_at > datetime('now').
selected(b, row, t) ==
    IF b = "postgres" THEN TRUE ELSE row.expires_at > t

\* The row after get_query_cache's statement ran on it at time t: Postgres
\* runs UPDATE .. SET last_accessed = NOW(), SQLite runs a SELECT.
row_after_get(b, row, t) ==
    IF b = "postgres" THEN [row EXCEPT !.last_accessed = t] ELSE row

\* CacheManager::search writes the row back after a store-served search.
StoreQueryCache ==
    /\ qc_row' = Some(stored_row(backend, query_cache_ttl_hours, clock))
    /\ qc_touch' = Some(clock)
    /\ qc_got' = "none"
    /\ UNCHANGED query_cache_ttl_hours
    /\ UNCHANGED <<vars, cvars, xvars, tvars, lvars, pvars>>

\* get_query_cache(fp) in either backend.
GetQueryCache ==
    /\ IF qc_row # None /\ selected(backend, qc_row[1], clock)
       THEN /\ qc_row' = Some(row_after_get(backend, qc_row[1], clock))
            /\ qc_touch' = Some(clock)
            /\ qc_got' = "hit"
       ELSE /\ qc_got' = "miss"
            /\ UNCHANGED <<qc_row, qc_touch>>
    /\ UNCHANGED query_cache_ttl_hours
    /\ UNCHANGED <<vars, cvars, xvars, tvars, lvars, pvars>>

\* One hour passes.
Hour ==
    /\ clock < MaxClock
    /\ clock' = clock + 1
    /\ qc_got' = "none"
    /\ UNCHANGED <<backend, qc_row, qc_touch, query_cache_ttl_hours>>
    /\ UNCHANGED <<vars, cvars, xvars, lvars, pvars>>

\* ------------------------------------------------------------------------
\* The bulk loader and its refresh task.
\* ------------------------------------------------------------------------

Done(v) == [ok |-> TRUE, v |-> v]
Failed == [ok |-> FALSE]

RECURSIVE Max(_)
Max(S) ==
    LET x == CHOOSE y \in S : TRUE
    IN  IF S = {x} THEN x
        ELSE LET m == Max(S \ {x}) IN IF x > m THEN x ELSE m

\* get_last_bulk_import when the connection works. Postgres reads the newest
\* imported_at of bulk_data_metadata, the table record_bulk_import writes.
\* SQLite reads bulk_data_metadata too, but init_schema creates and
\* record_bulk_import fills bulk_imports: the statement fails (no such table).
get_last_bulk_import(b, recorded) ==
    IF b = "postgres"
    THEN Done(IF recorded = {} THEN None ELSE Some(Max(recorded)))
    ELSE Failed

\* BulkLoader::should_load when the connection works.
should_load(b, cards, recorded, t, ttl) ==
    IF ~cards THEN Done(TRUE)
    ELSE LET last_import == get_last_bulk_import(b, recorded)
         IN  IF ~last_import.ok THEN Failed
             ELSE IF last_import.v # None
                  THEN Done(t - last_import.v[1] >= ttl)
                  ELSE Done(FALSE)

is_newer_or_equal(their_updated_at, our_time) == their_updated_at >= our_time
is_newer(their_updated_at, our_time) == their_updated_at > our_time

\* BulkLoader::check_upstream_updated when connection and network work.
check_upstream_updated(b, recorded, their_updated_at) ==
    LET our_updated_at == get_last_bulk_import(b, recorded)
    IN  IF ~our_updated_at.ok THEN Failed
        ELSE IF our_updated_at.v # None
             THEN Done(is_newer(their_updated_at, our_updated_at.v[1]))
             ELSE Done(TRUE)

\* The text of a Result<bool> in the tick's history.
Text(res) == IF ~res.ok THEN "err" ELSE IF res.v THEN "true" ELSE "false"

\* How BulkLoader::load can end: "ok"; "early", an error before the first
\* batch is inserted; "late", an error after cards were inserted (a later
\* batch, fewer than 1000 cards, the record of the import).
LoadOutcomes == {"ok", "early", "late"}

\* BulkLoader::load ending with outcome o.
load(o) ==
    /\ has_cards' = (has_cards \/ o # "early")
    /\ imports' = IF o = "ok" THEN imports \cup {clock} ELSE imports
    /\ load_ok' = (load_ok \/ o = "ok")

load_on_error(check) ==
    CASE check = "true" -> "load"
      [] check = "false" -> "done"
      [] OTHER -> "load"
\* The arm start_bulk_refresh_job takes on the result of the check.
after_check(check) ==
    CASE check = "true" -> "load"
      [] check = "false" -> "done"
      [] OTHER -> "fallback"

\* main: should_load().await? ends the process on an error.
StartupCheck ==
    /\ tpc = "startup"
    /\ \E fault \in BOOLEAN :
         LET res == IF fault THEN Failed
                    ELSE should_load(backend, has_cards, imports, clock,
                                     cache_ttl_hours)
         IN  tpc' = IF ~res.ok THEN "exited"
                    ELSE IF res.v THEN "startup_load" ELSE "first"
    /\ UNCHANGED <<has_cards, imports, upstream_updated_at, cache_ttl_hours,
                   tick, load_ok>>
    /\ UNCHANGED <<vars, cvars, xvars, tvars, qvars, pvars>>

\* main: load() at startup; its error is logged, the service goes on.
StartupLoad ==
    /\ tpc = "startup_load"
    /\ \E o \in LoadOutcomes : load(o)
    /\ tpc' = "first"
    /\ UNCHANGED <<upstream_updated_at, cache_ttl_hours, tick>>
    /\ UNCHANGED <<vars, cvars, xvars, tvars, qvars, pvars>>

\* The first tick of the interval completes at once and is skipped.
FirstTick ==
    /\ tpc = "first"
    /\ tpc' = "wait"
    /\ UNCHANGED <<has_cards, imports, upstream_updated_at, cache_ttl_hours,
                   tick, load_ok>>
    /\ UNCHANGED <<vars, cvars, xvars, tvars, qvars, pvars>>

\* A later tick: check_upstream_updated, which fails when the connection or
\* the network does.
Check ==
    /\ tpc = "wait"
    /\ \E fault \in BOOLEAN :
         LET res == IF fault THEN Failed
                    ELSE check_upstream_updated(backend, imports,
                                                upstream_updated_at)
         IN  /\ tick' = [last |-> IF imports = {} THEN None
                                  ELSE Some(Max(imports)),
                         theirs |-> upstream_updated_at,
                         check |-> Text(res), should |-> "none", loads |-> 0]
             /\ tpc' = after_check(Text(res))
    /\ UNCHANGED <<has_cards, imports, upstream_updated_at, cache_ttl_hours,
                   load_ok>>
    /\ UNCHANGED <<vars, cvars, xvars, tvars, qvars, pvars>>

\* The tick falls back to should_load.
Fallback ==
    /\ tpc = "fallback"
    /\ \E fault \in BOOLEAN :
         LET res == IF fault THEN Failed
                    ELSE should_load(backend, has_cards, imports, clock,
                                     cache_ttl_hours)
         IN  /\ tick' = [tick EXCEPT !.should = Text(res)]
             /\ tpc' = IF res.ok /\ res.v THEN "load" ELSE "done"
    /\ UNCHANGED <<has_cards, imports, upstream_updated_at, cache_ttl_hours,
                   load_ok>>
    /\ UNCHANGED <<vars, cvars, xvars, tvars, qvars, pvars>>

\* The tick calls load(); its error is logged.
Load ==
    /\ tpc = "load"
    /\ \E o \in LoadOutcomes : load(o)
    /\ tick' = [tick EXCEPT !.loads = @ + 1]
    /\ tpc' = "done"
    /\ UNCHANGED <<upstream_updated_at, cache_ttl_hours>>
    /\ UNCHANGED <<vars, cvars, xvars, tvars, qvars, pvars>>

\* The task goes back to waiting for the next tick.
TickEnds ==
    /\ tpc = "done"
    /\ tpc' = "wait"
    /\ UNCHANGED <<has_cards, imports, upstream_updated_at, cache_ttl_hours,
                   tick, load_ok>>
    /\ UNCHANGED <<vars, cvars, xvars, tvars, qvars, pvars>>

\* admin_reload (force_load) and the reloadBulkData mutation call load().
ForceLoad ==
    /\ tpc \notin {"startup", "startup_load", "exited"}
    /\ \E o \in LoadOutcomes : load(o)
    /\ UNCHANGED <<upstream_updated_at, cache_ttl_hours, tpc, tick>>
    /\ UNCHANGED <<vars, cvars, xvars, tvars, qvars, pvars>>

\* The upstream publishes a new bulk file.
UpstreamPublishes ==
    /\ upstream_updated_at < clock
    /\ upstream_updated_at' = clock
    /\ UNCHANGED <<has_cards, imports, cache_ttl_hours, tpc, tick, load_ok>>
    /\ UNCHANGED <<vars, cvars, xvars, tvars, qvars, pvars>>

\* ------------------------------------------------------------------------
\* One run of BulkLoader::load: discover, download with retries, parse,
\* import in batches, verify, record.
\* ------------------------------------------------------------------------

\* The numbers of decodable records of a snapshot: around the batch borders.
GoodCounts ==
    {n \in {k * BATCH_SIZE + e : k \in 0..MaxBatches, e \in {-1, 0, 1}} : n >= 0}
\* The numbers of undecodable records of a snapshot.
BadCounts == {0, 1, MaxBatches * BATCH_SIZE}

gives_up_late(n, max_retries) == n > max_retries
\* retry_with_backoff: `Err(e) if attempt >= max_retries`.
gives_up(n, max_retries) == n >= max_retries

\* retry_with_backoff: the delay after the failed attempt n.
backoff_delay(n) == INITIAL_RETRY_DELAY_MS * 2 ^ (n - 1)

import_result_any_failure(n, failed) ==
    IF n < MinImported \/ failed > 0 THEN Failed ELSE Done(n)
import_result_unverified(n, failed) == Done(n)
\* download_and_import after its loop: the verification of imported.
import_result(n, failed) == IF n < MinImported THEN Failed ELSE Done(n)

\* load: record_bulk_import(total_cards as i32, ..) with download_and_import's
\* result; json_array.len() is the other count at hand.
recorded_total(n, total_cards) == n

\* The run ends with an error at step f.
LoadFails(f) ==
    /\ lpc' = "done"
    /\ lres' = "err"
    /\ lfault' = f

\* load() is called on a snapshot the upstream offers.
LoadStart ==
    /\ lpc = "idle"
    /\ lres = "none"
    /\ snap' \in [good : GoodCounts, bad : BadCounts]
    /\ lpc' = "discover"
    /\ UNCHANGED <<attempt, slept, left, imported, upserted, lres, lfault,
                   records>>
    /\ UNCHANGED <<vars, cvars, tvars, qvars, lvars, pvars, uvars, yvars>>

\* discover_bulk_data.
Discover ==
    /\ lpc = "discover"
    /\ \E ok \in BOOLEAN :
         IF ok THEN lpc' = "download" /\ UNCHANGED <<lres, lfault>>
         ELSE LoadFails("discover")
    /\ UNCHANGED <<snap, attempt, slept, left, imported, upserted, records>>
    /\ UNCHANGED <<vars, cvars, tvars, qvars, lvars, pvars, uvars, yvars>>

\* One turn of retry_with_backoff's loop around the download.
Download ==
    /\ lpc = "download"
    /\ attempt' = attempt + 1
    /\ \E ok \in BOOLEAN :
         IF ok THEN /\ lpc' = "parse"
                    /\ UNCHANGED <<slept, lres, lfault>>
         ELSE IF gives_up(attempt', MAX_RETRIES)
              THEN LoadFails("download") /\ UNCHANGED slept
              ELSE /\ slept' = Append(slept, backoff_delay(attempt'))
                   /\ UNCHANGED <<lpc, lres, lfault>>
    /\ UNCHANGED <<snap, left, imported, upserted, records>>
    /\ UNCHANGED <<vars, cvars, tvars, qvars, lvars, pvars, uvars, yvars>>

\* The body is checked for emptiness and parsed (directly or after gunzip);
\* an empty array is refused.
Parse ==
    /\ lpc = "parse"
    /\ \E ok \in BOOLEAN :
         IF ~ok THEN LoadFails("parse") /\ UNCHANGED left
         ELSE IF snap.good + snap.bad = 0
              THEN LoadFails("empty") /\ UNCHANGED left
              ELSE /\ lpc' = "import"
                   /\ left' = snap.good
                   /\ UNCHANGED <<lres, lfault>>
    /\ UNCHANGED <<snap, attempt, slept, imported, upserted, records>>
    /\ UNCHANGED <<vars, cvars, tvars, qvars, lvars, pvars, uvars, yvars>>

\* The loop up to and including its next insert_cards_batch: a full batch
\* while BATCH_SIZE decodable records are left, then the remaining ones.
ImportBatch ==
    /\ lpc = "import"
    /\ left > 0
    /\ LET n == Min(left, BATCH_SIZE)
       IN  \E ok \in BOOLEAN :
             IF ok THEN /\ imported' = imported + n
                        /\ upserted' = upserted + n
                        /\ left' = left - n
                        /\ UNCHANGED <<lpc, lres, lfault>>
             ELSE /\ LoadFails("batch")
                  /\ UNCHANGED <<left, imported, upserted>>
    /\ UNCHANGED <<snap, attempt, slept, records>>
    /\ UNCHANGED <<vars, cvars, tvars, qvars, lvars, pvars, uvars, yvars>>

\* The end of download_and_import and the rest of load: the verification,
\* the timestamp of the bulk entry, record_bulk_import.
VerifyAndRecord ==
    /\ lpc = "import"
    /\ left = 0
    /\ LET res == import_result(imported, snap.bad)
       IN  IF ~res.ok THEN LoadFails("verify") /\ UNCHANGED records
           ELSE \E f \in {"none", "timestamp", "record"} :
                  IF f # "none" THEN LoadFails(f) /\ UNCHANGED records
                  ELSE /\ records' = Append(records,
                              recorded_total(res.v, snap.good + snap.bad))
                       /\ lpc' = "done"
                       /\ lres' = "ok"
                       /\ UNCHANGED lfault
    /\ UNCHANGED <<snap, attempt, slept, left, imported, upserted>>
    /\ UNCHANGED <<vars, cvars, tvars, qvars, lvars, pvars, uvars, yvars>>

\* ------------------------------------------------------------------------
\* insert_cards_batch on the cards table, in either backend.
\* ------------------------------------------------------------------------

UpsertIds == 1..MaxUpsertIds
\* A card as insert_cards_batch sees it: its id and its other columns.
UpsertCards == [id : UpsertIds, val : 1..MaxVals]
UpsertBatches == UNION {[1..n -> UpsertCards] : n \in 0..MaxUpsert}

\* INSERT .. ON CONFLICT (id) DO UPDATE SET .. updated_at = now, one row:
\* a new row takes the defaults created_at = updated_at = now.
upsert_row(tbl, card, t) ==
    [tbl EXCEPT ![card.id] =
        IF @ = None
        THEN Some([val |-> card.val, created_at |-> t, updated_at |-> t])
        ELSE Some([val |-> card.val, created_at |-> @[1].created_at,
                   updated_at |-> t])]

\* The rows of a list upserted one after the other.
RECURSIVE upsert_rows(_, _, _)
upsert_rows(tbl, cards, t) ==
    IF cards = <<>> THEN tbl
    ELSE upsert_rows(upsert_row(tbl, cards[1], t), Tail(cards), t)

\* cards.chunks(CHUNK_SIZE)
RECURSIVE chunks(_)
chunks(cards) ==
    IF Len(cards) <= CHUNK_SIZE
    THEN (IF cards = <<>> THEN <<>> ELSE <<cards>>)
    ELSE <<SubSeq(cards, 1, CHUNK_SIZE)>>
           \o chunks(SubSeq(cards, CHUNK_SIZE + 1, Len(cards)))

\* Two rows of one statement carry the same id.
repeats_id(chunk) ==
    \E i, j \in DOMAIN chunk : i < j /\ chunk[i].id = chunk[j].id

\* Postgres: one INSERT .. VALUES (..), (..) .. ON CONFLICT (id) DO UPDATE per
\* chunk, all in one transaction. The engine refuses a statement that would
\* update one row twice (cardinality_violation), the `?` leaves the function
\* and the dropped transaction is rolled back.
RECURSIVE insert_chunks(_, _, _, _)
insert_chunks(orig, tbl, cs, t) ==
    IF cs = <<>> THEN [ok |-> TRUE, tbl |-> tbl]
    ELSE IF repeats_id(cs[1]) THEN [ok |-> FALSE, tbl |-> orig]
         ELSE insert_chunks(orig, upsert_rows(tbl, cs[1], t), Tail(cs), t)

\* insert_cards_batch when the connection works. SQLite executes one
\* INSERT .. ON CONFLICT(id) DO UPDATE per card in one transaction.
insert_cards_batch(b, tbl, cards, t) ==
    IF cards = <<>> THEN [ok |-> TRUE, tbl |-> tbl]
    ELSE IF b = "postgres" THEN insert_chunks(tbl, tbl, chunks(cards), t)
         ELSE [ok |-> TRUE, tbl |-> upsert_rows(tbl, cards, t)]

\* A caller upserts a batch.
InsertCardsBatch ==
    /\ \E cards \in UpsertBatches :
         LET res == insert_cards_batch(backend, cards_tbl, cards, clock)
         IN  /\ cards_tbl' = res.tbl
             /\ ibres' = IF res.ok THEN "ok" ELSE "err"
    /\ UNCHANGED <<vars, cvars, tvars, qvars, lvars, pvars, bvars, yvars>>

\* ========================================================================
\* Part V : the query language (src/query) and the handlers of the
\* client-facing operations (src/api/handlers.rs).
\* ========================================================================

\* ------------------------------------------------------------------------
\* Strings (Rust &str) and the query language: query/validator.rs,
\* query/parser.rs.
\* ------------------------------------------------------------------------

\* The i-th character of s.
Ch(s, i) == SubSeq(s, i, i)
\* s[i..]
From(s, i) == SubSeq(s, i, Len(s))

\* n copies of s.
RECURSIVE Rep(_, _)
Rep(s, n) ==
    IF n = 0 THEN ""
    ELSE IF n % 2 = 0 THEN LET half == Rep(s, n \div 2) IN half \o half
    ELSE s \o Rep(s, n - 1)

\* str::starts_with, str::ends_with, str::contains
starts_with(s, p) == Len(p) <= Len(s) /\ SubSeq(s, 1, Len(p)) = p
ends_with(s, p) == Len(p) <= Len(s) /\ SubSeq(s, Len(s) - Len(p) + 1, Len(s)) = p
contains(s, p) == \E i \in 1..(Len(s) - Len(p) + 1) : SubSeq(s, i, i + Len(p) - 1) = p

\* char::to_lowercase on the letters of the alphabet.
UpperToLower ==
    [c \in {"A", "B", "C", "D", "E", "F", "G", "H", "I", "J", "K", "L", "M",
            "N", "O", "P", "Q", "R", "S", "T", "U", "V", "W", "X", "Y", "Z"} |->
        CASE c = "A" -> "a" [] c = "B" -> "b" [] c = "C" -> "c" [] c = "D" -> "d"
          [] c = "E" -> "e" [] c = "F" -> "f" [] c = "G" -> "g" [] c = "H" -> "h"
          [] c = "I" -> "i" [] c = "J" -> "j" [] c = "K" -> "k" [] c = "L" -> "l"
          [] c = "M" -> "m" [] c = "N" -> "n" [] c = "O" -> "o" [] c = "P" -> "p"
          [] c = "Q" -> "q" [] c = "R" -> "r" [] c = "S" -> "s" [] c = "T" -> "t"
          [] c = "U" -> "u" [] c = "V" -> "v" [] c = "W" -> "w" [] c = "X" -> "x"
          [] c = "Y" -> "y" [] c = "Z" -> "z"]
lower_char(c) == IF c \in DOMAIN UpperToLower THEN UpperToLower[c] ELSE c

\* str::to_lowercase
RECURSIVE to_lowercase(_)
to_lowercase(s) ==
    IF s = "" THEN "" ELSE lower_char(Ch(s, 1)) \o to_lowercase(From(s, 2))

\* str::trim_matches('"')
RECURSIVE trim_quotes(_)
trim_quotes(s) ==
    IF s # "" /\ Ch(s, 1) = "\"" THEN trim_quotes(From(s, 2))
    ELSE IF s # "" /\ Ch(s, Len(s)) = "\"" THEN trim_quotes(SubSeq(s, 1, Len(s) - 1))
    ELSE s

\* str::split_once(':'): the index of the first ':' of s, 0 without one.
RECURSIVE colon_at(_, _)
colon_at(s, i) ==
    IF i > Len(s) THEN 0 ELSE IF Ch(s, i) = ":" THEN i ELSE colon_at(s, i + 1)

\* The loop of validate_query_string over the characters from i on, with
\* paren_count open parentheses: "ok", "closing" or "unclosed".
RECURSIVE paren_scan(_, _, _)
paren_scan(query, i, paren_count) ==
    IF i > Len(query) THEN (IF paren_count # 0 THEN "unclosed" ELSE "ok")
    ELSE IF Ch(query, i) = "(" THEN paren_scan(query, i + 1, paren_count + 1)
    ELSE IF Ch(query, i) = ")"
         THEN (IF paren_count - 1 < 0 THEN "closing"
               ELSE paren_scan(query, i + 1, paren_count - 1))
    ELSE paren_scan(query, i + 1, paren_count)

\* QueryValidator::validate_query_string: "ok" or the reason of the error.
validate_query_string(limits, query) ==
    IF Len(query) > limits.max_query_length THEN "too_long"
    ELSE paren_scan(query, 1, 0)

\* QueryParser::tokenize from character i on, with the token in progress.
RECURSIVE tokenize_from(_, _, _, _, _)
tokenize_from(query, i, current, in_quotes, toks) ==
    LET flushed == IF current # "" THEN Append(toks, current) ELSE toks
    IN  IF i > Len(query) THEN flushed
        ELSE LET ch == Ch(query, i)
             IN  IF ch = "\""
                 THEN tokenize_from(query, i + 1, current \o ch, ~in_quotes, toks)
                 ELSE IF ch = " " /\ ~in_quotes
                 THEN tokenize_from(query, i + 1, "", in_quotes, flushed)
                 ELSE IF ch \in {"(", ")"} /\ ~in_quotes
                 THEN tokenize_from(query, i + 1, "", in_quotes, Append(flushed, ch))
                 ELSE tokenize_from(query, i + 1, current \o ch, in_quotes, toks)

tokenize(query) == tokenize_from(query, 1, "", FALSE, <<>>)

\* QueryParser::normalize_field
normalize_field(field) ==
    LET f == to_lowercase(field)
    IN  CASE f = "c" -> "color"
          [] f \in {"id", "identity"} -> "color_identity"
          [] f = "t" -> "type"
          [] f = "o" -> "oracle"
          [] f = "s" -> "set"
          [] f = "r" -> "rarity"
          [] f = "pow" -> "power"
          [] f = "tou" -> "toughness"
          [] f = "loy" -> "loyalty"
          [] OTHER -> field

\* QueryParser::parse_operator_and_value
parse_operator_and_value(s) ==
    IF starts_with(s, ">=") THEN <<"GreaterThanOrEqual", From(s, 3)>>
    ELSE IF starts_with(s, "<=") THEN <<"LessThanOrEqual", From(s, 3)>>
    ELSE IF starts_with(s, ">") THEN <<"GreaterThan", From(s, 2)>>
    ELSE IF starts_with(s, "<") THEN <<"LessThan", From(s, 2)>>
    ELSE IF starts_with(s, "!=") THEN <<"NotEqual", From(s, 3)>>
    ELSE IF starts_with(s, "=") THEN <<"Equal", From(s, 2)>>
    ELSE IF starts_with(s, "/") /\ ends_with(s, "/") /\ Len(s) > 2
         THEN <<"Regex", SubSeq(s, 2, Len(s) - 1)>>
    ELSE <<"Contains", s>>

\* The leaf QueryParser::parse_filter builds from a token.
filter_of(token) ==
    LET at == colon_at(token, 1)
    IN  IF at # 0
        THEN LET ov == parse_operator_and_value(From(token, at + 1))
             IN  [k |-> "Filter", field |-> normalize_field(SubSeq(token, 1, at - 1)),
                  operator |-> ov[1], value |-> trim_quotes(ov[2])]
        ELSE [k |-> "Filter", field |-> "name", operator |-> "Contains",
              value |-> trim_quotes(token)]

\* The parser's results: a node and the position after it, or an error.
Parsed(node, pos) == [ok |-> TRUE, node |-> node, pos |-> pos]
ParseError == [ok |-> FALSE]

RECURSIVE parse_or(_, _)
RECURSIVE parse_or_loop(_, _, _)
RECURSIVE parse_and(_, _)
RECURSIVE parse_and_loop(_, _, _)
RECURSIVE parse_term(_, _)

\* QueryParser::parse_term at position pos (1-based) of toks.
parse_term(toks, pos) ==
    IF pos > Len(toks) THEN ParseError
    ELSE LET token == toks[pos]
         IN  IF token = "("
             THEN LET expr == parse_or(toks, pos + 1)
                  IN  IF ~expr.ok THEN ParseError
                      ELSE IF expr.pos <= Len(toks) /\ toks[expr.pos] = ")"
                           THEN Parsed(expr.node, expr.pos + 1)
                           ELSE expr
             ELSE IF to_lowercase(token) = "not" \/ token = "-"
             THEN LET term == parse_term(toks, pos + 1)
                  IN  IF ~term.ok THEN ParseError
                      ELSE Parsed([k |-> "Not", child |-> term.node], term.pos)
             ELSE Parsed(filter_of(token), pos + 1)

\* The while loop of parse_and with the terms collected so far.
parse_and_loop(toks, pos, terms) ==
    IF pos > Len(toks) \/ toks[pos] = ")" \/ to_lowercase(toks[pos]) = "or"
    THEN Parsed(IF Len(terms) = 1 THEN terms[1]
                ELSE [k |-> "And", children |-> terms], pos)
    ELSE LET at == IF to_lowercase(toks[pos]) = "and" THEN pos + 1 ELSE pos
             term == parse_term(toks, at)
         IN  IF ~term.ok THEN ParseError
             ELSE parse_and_loop(toks, term.pos, Append(terms, term.node))

\* QueryParser::parse_and
parse_and(toks, pos) ==
    LET first == parse_term(toks, pos)
    IN  IF ~first.ok THEN ParseError
        ELSE parse_and_loop(toks, first.pos, <<first.node>>)

\* The while loop of parse_or with the node built so far.
parse_or_loop(toks, pos, lhs) ==
    IF pos <= Len(toks) /\ to_lowercase(toks[pos]) = "or"
    THEN LET right == parse_and(toks, pos + 1)
         IN  IF ~right.ok THEN ParseError
             ELSE parse_or_loop(toks, right.pos,
                    IF lhs.k = "Or"
                    THEN [k |-> "Or", children |-> Append(lhs.children, right.node)]
                    ELSE [k |-> "Or", children |-> <<lhs, right.node>>])
    ELSE Parsed(lhs, pos)

\* QueryParser::parse_or
parse_or(toks, pos) ==
    LET lhs == parse_and(toks, pos)
    IN  IF ~lhs.ok THEN ParseError ELSE parse_or_loop(toks, lhs.pos, lhs.node)

\* QueryParser::parse: the toks lhs after the expression are ignored.
parse(query) == parse_or(tokenize(query), 1)

VALID_FIELDS ==
    {"name", "type", "oracle", "color", "colors", "cmc", "mana", "power",
     "toughness", "set", "rarity", "artist", "flavor", "border", "frame",
     "layout", "loyalty"}
NUMERIC_FIELDS == {"cmc", "power", "toughness", "loyalty"}
VALID_COLORS == {"w", "u", "b", "r", "g", "c"}
NumericOperators ==
    {"GreaterThan", "LessThan", "GreaterThanOrEqual", "LessThanOrEqual"}

\* validate_filter: the field is one of valid_fields.
valid_field(field) == field \in VALID_FIELDS

\* QueryValidator::validate_filter: "ok" or the reason of the error.
validate_filter(filter) ==
    LET field == to_lowercase(filter.field)
    IN  IF ~valid_field(field) THEN "field"
        ELSE IF field \notin NUMERIC_FIELDS /\ filter.operator \in NumericOperators
             THEN "operator"
        ELSE IF field \in {"color", "colors"}
                /\ \E i \in 1..Len(filter.value) :
                     lower_char(Ch(filter.value, i)) \notin VALID_COLORS
             THEN "color"
        ELSE "ok"

RECURSIVE calculate_depth(_)
RECURSIVE count_or_clauses(_)
RECURSIVE validate_node(_)

MaxOf(S) == IF S = {} THEN 0 ELSE CHOOSE m \in S : \A n \in S : n <= m

RECURSIVE SumOf(_)
SumOf(ns) == IF ns = <<>> THEN 0 ELSE ns[1] + SumOf(Tail(ns))

\* QueryValidator::calculate_depth
calculate_depth(node) ==
    CASE node.k \in {"And", "Or"} ->
           1 + MaxOf({calculate_depth(node.children[i]) : i \in DOMAIN node.children})
      [] node.k = "Not" -> 1 + calculate_depth(node.child)
      [] OTHER -> 1

\* QueryValidator::count_or_clauses
count_or_clauses(node) ==
    CASE node.k = "Or" ->
           1 + SumOf([i \in DOMAIN node.children |-> count_or_clauses(node.children[i])])
      [] node.k = "And" ->
           SumOf([i \in DOMAIN node.children |-> count_or_clauses(node.children[i])])
      [] node.k = "Not" -> count_or_clauses(node.child)
      [] OTHER -> 0

\* QueryValidator::validate_node: the first error in the order of the tree.
validate_node(node) ==
    CASE node.k \in {"And", "Or"} ->
           LET bad == {i \in DOMAIN node.children : validate_node(node.children[i]) # "ok"}
           IN  IF bad = {} THEN "ok"
               ELSE validate_node(node.children[CHOOSE i \in bad : \A j \in bad : i <= j])
      [] node.k = "Not" -> validate_node(node.child)
      [] OTHER -> validate_filter(node)

\* QueryValidator::validate_ast: "ok" or the reason of the error.
validate_ast(limits, node) ==
    IF calculate_depth(node) > limits.max_nesting_depth THEN "depth"
    ELSE IF count_or_clauses(node) > limits.max_or_clauses THEN "or_clauses"
    ELSE validate_node(node)

\* ------------------------------------------------------------------------
\* The handlers of the client-facing operations (src/api/handlers.rs) and
\* the error codes (src/errors/codes.rs).
\* ------------------------------------------------------------------------

\* ErrorCode::status_code
status_code(code) ==
    CASE code = "INVALID_QUERY" -> 400
      [] code = "CARD_NOT_FOUND" -> 404
      [] code = "RATE_LIMIT_EXCEEDED" -> 429
      [] code = "DATABASE_ERROR" -> 503
      [] code = "SCRYFALL_API_ERROR" -> 502
      [] code = "INVALID_API_KEY" -> 401
      [] code = "VALIDATION_ERROR" -> 400
      [] code = "INTERNAL_ERROR" -> 500

\* ErrorResponse::new(code, ..).into_response() and the answer with data.
ErrorResponse(code) == [status |-> status_code(code), code |-> code]
Success == [status |-> 200, code |-> "none"]

\* QueryLimits::default, the limits of the validator's test of length, and
\* QueryLimits::from_env with a tight QUERY_MAX_NESTING and
\* QUERY_MAX_OR_CLAUSES.
DefaultLimits ==
    [max_query_length |-> DefaultMaxQueryLength,
     max_nesting_depth |-> DefaultMaxNestingDepth,
     max_or_clauses |-> DefaultMaxOrClauses]
ShortLimits == [DefaultLimits EXCEPT !.max_query_length = TestMaxQueryLength]
TightLimits ==
    [DefaultLimits EXCEPT !.max_nesting_depth = EnvMaxNesting,
                          !.max_or_clauses = EnvMaxOrClauses]
Limits == {DefaultLimits, ShortLimits, TightLimits}

\* The query texts of the search requests.
FieldTexts ==
    {"name", "color", "c", "color_identity", "id", "identity", "type", "t",
     "type_line", "oracle", "o", "oracle_text", "set", "s", "rarity", "r",
     "power", "pow", "toughness", "tou", "loyalty", "loy", "cmc", "mana",
     "foo", "C"}
OperatorTexts == {":", ":>"}
ValueTexts == {"w", "5", "z"}
FilterQueries ==
    {f \o o \o v : f \in FieldTexts, o \in OperatorTexts, v \in ValueTexts}
NotQueries == {Rep("- ", k) \o "a" : k \in 0..MaxNots}
OrQueries == {Rep("(a or b) ", k) : k \in 1..MaxOrGroups}
ParenQueries ==
    {Rep("(", k) : k \in 1..MaxParens}
        \cup {"(name:x)", "name:x)", "(name:x", "()"}
BrokenQueries == {"", "not", "name:x or", "name:x and"}
LongQueries ==
    {Rep("a", DefaultMaxQueryLength + 1), "name:x c:w", "name:x c:wu"}
Queries ==
    FilterQueries \cup NotQueries \cup OrQueries \cup ParenQueries
        \cup BrokenQueries \cup LongQueries

\* The requests of the four operations that may call the upstream.
Requests ==
    [endpoint : {"search"}, q : Queries, named : {"none"}, ids : {0},
     fetch_missing : {FALSE}]
      \cup [endpoint : {"card_by_id"}, q : {""}, named : {"none"}, ids : {0},
            fetch_missing : {FALSE}]
      \cup [endpoint : {"card_by_name"}, q : {""},
            named : {"fuzzy", "exact", "none"}, ids : {0},
            fetch_missing : {FALSE}]
      \cup [endpoint : {"batch_by_id"}, q : {""}, named : {"none"},
            ids : {0, 1, BatchMaxIds + 1}, fetch_missing : BOOLEAN]

\* The error texts (anyhow Display: the outermost context) of the client and
\* of the store.
SendFailed == "Failed to send request to Scryfall"
BreakerOpen == "Circuit breaker is open - Scryfall API unavailable"
StatusTexts == {"500 Internal Server Error", "429 Too Many Requests"}
BodyTexts == {"", "upstream connection reset"}
ApiError(status, body) == "Scryfall API error: " \o status \o " - " \o body
DecodeFailed == "Failed to parse Scryfall response"
StoreFailed == "Failed to get connection from pool"

Failure(kind, msg) == [ok |-> FALSE, kind |-> kind, msg |-> msg]

\* The errors of a call of the upstream: transport, non-2xx other than 404,
\* rejection by the open breaker, undecodable body.
UpstreamErrors ==
    {Failure("transport", SendFailed), Failure("open", BreakerOpen),
     Failure("decode", DecodeFailed)}
        \cup {Failure("status", ApiError(s, b)) : s \in StatusTexts, b \in BodyTexts}

\* What the cache manager returns to the handler of a request.
ManagerOutcomes(r) ==
    {[ok |-> TRUE, found |-> TRUE], Failure("store", StoreFailed)}
        \cup (IF r.endpoint \in {"card_by_id", "card_by_name"}
              THEN {[ok |-> TRUE, found |-> FALSE]} ELSE {})
        \cup (IF r.endpoint = "batch_by_id" /\ ~r.fetch_missing
              THEN {} ELSE UpstreamErrors)

\* The mapping of search_cards and of get_card from the text of the error.
is_upstream_message(m) ==
    \/ contains(m, "Scryfall API error")
    \/ contains(m, "Scryfall API unavailable")
    \/ contains(m, "Circuit breaker")
is_database_message(m) ==
    \/ contains(m, "database")
    \/ contains(m, "connection")
    \/ contains(m, "pool")
\* The upstream test of get_card_by_name.
is_api_message(m) ==
    \/ contains(m, "scryfall")
    \/ contains(m, "API")
    \/ contains(m, "rate limit")

\* The error code each handler answers an error of the cache manager with.
error_code(endpoint, m) ==
    CASE endpoint \in {"search", "card_by_id"} ->
           IF is_upstream_message(m) THEN "SCRYFALL_API_ERROR"
           ELSE IF is_database_message(m) THEN "DATABASE_ERROR"
           ELSE "INTERNAL_ERROR"
      [] endpoint = "card_by_name" ->
           IF is_database_message(m) THEN "DATABASE_ERROR"
           ELSE IF is_api_message(m) THEN "SCRYFALL_API_ERROR"
           ELSE "INTERNAL_ERROR"
      [] endpoint = "batch_by_id" -> "INTERNAL_ERROR"

\* The answer of a handler to what the cache manager returned.
answer(endpoint, o) ==
    IF ~o.ok THEN ErrorResponse(error_code(endpoint, o.msg))
    ELSE IF o.found THEN Success
    ELSE ErrorResponse("CARD_NOT_FOUND")

\* The code search_cards answers a rejected query with: by the validator
\* (of the text or of the tree) or by the parser.
rejection_code_swapped(by) ==
    IF by = "parser" THEN "VALIDATION_ERROR" ELSE "INVALID_QUERY"
\* (handlers.rs 449-465)
rejection_code(by) ==
    IF by = "parser" THEN "INVALID_QUERY" ELSE "VALIDATION_ERROR"

part1to4 == <<vars, cvars, tvars, qvars, lvars, pvars, bvars, uvars, zvars>>

\* A request arrives at its handler.
Receive ==
    /\ hpc = "idle"
    /\ \E r \in Requests :
         /\ req' = r
         /\ hpc' = "received"
    /\ hast' = None
    /\ hreason' = "none"
    /\ resp' = None
    /\ mcalls' = 0
    /\ merr' = "none"
    /\ UNCHANGED <<part1to4, nvars, gvars, query_limits>>

\* get_card_by_name without fuzzy and exact, batch_get_cards without ids or
\* with too many: the handler answers before it calls the cache manager.
RejectParams ==
    /\ hpc = "received"
    /\ \/ (req.endpoint = "card_by_name" /\ req.named = "none")
       \/ (req.endpoint = "batch_by_id" /\ (req.ids = 0 \/ req.ids > BatchMaxIds))
    /\ hreason' = "params"
    /\ resp' = Some(ErrorResponse("VALIDATION_ERROR"))
    /\ hpc' = "done"
    /\ UNCHANGED <<part1to4, nvars, gvars, query_limits, req, hast, mcalls, merr>>

\* search_cards: validate_query_string.
ValidateQueryString ==
    /\ hpc = "received"
    /\ req.endpoint = "search"
    /\ LET r == validate_query_string(query_limits, req.q)
       IN  IF r # "ok"
           THEN /\ hreason' = r
                /\ resp' = Some(ErrorResponse(rejection_code("validator")))
                /\ hpc' = "done"
           ELSE /\ hpc' = "validated"
                /\ UNCHANGED <<hreason, resp>>
    /\ UNCHANGED <<part1to4, nvars, gvars, query_limits, req, hast, mcalls, merr>>

\* search_cards: QueryParser::parse.
ParseQuery ==
    /\ hpc = "validated"
    /\ LET r == parse(req.q)
       IN  IF ~r.ok
           THEN /\ hreason' = "parse"
                /\ resp' = Some(ErrorResponse(rejection_code("parser")))
                /\ hpc' = "done"
                /\ hast' = None
           ELSE /\ hast' = Some(r.node)
                /\ hpc' = "parsed"
                /\ UNCHANGED <<hreason, resp>>
    /\ UNCHANGED <<part1to4, nvars, gvars, query_limits, req, mcalls, merr>>

\* search_cards: validate_ast.
ValidateAst ==
    /\ hpc = "parsed"
    /\ LET r == validate_ast(query_limits, hast[1])
       IN  IF r # "ok"
           THEN /\ hreason' = r
                /\ resp' = Some(ErrorResponse(rejection_code("validator")))
                /\ hpc' = "done"
           ELSE /\ hpc' = "checked"
                /\ UNCHANGED <<hreason, resp>>
    /\ UNCHANGED <<part1to4, nvars, gvars, query_limits, req, hast, mcalls, merr>>

\* The handler calls the cache manager (search_paginated, get_card,
\* search_by_name, get_cards_batch) and answers with what it returned.
CallManager ==
    /\ \/ hpc = "checked"
       \/ /\ hpc = "received"
          /\ \/ req.endpoint = "card_by_id"
             \/ (req.endpoint = "card_by_name" /\ req.named # "none")
             \/ (req.endpoint = "batch_by_id" /\ req.ids \in 1..BatchMaxIds)
    /\ \E o \in ManagerOutcomes(req) :
         /\ merr' = IF o.ok THEN "none" ELSE o.kind
         /\ resp' = Some(answer(req.endpoint, o))
    /\ mcalls' = mcalls + 1
    /\ hpc' = "done"
    /\ UNCHANGED <<part1to4, nvars, gvars, query_limits, req, hast, hreason>>

\* The answer is sent.
Reply ==
    /\ hpc = "done"
    /\ hpc' = "idle"
    /\ UNCHANGED <<part1to4, nvars, gvars, query_limits, req, hast, hreason, resp, mcalls, merr>>

\* ------------------------------------------------------------------------
\* The batch handlers batch_get_cards_by_name and batch_execute_queries
\* (src/api/handlers.rs).
\* ------------------------------------------------------------------------

\* The items of a batch: names, or query texts.
ItemTexts(kind) == IF kind = "named" THEN {"a", "b"} ELSE {"name:x", "(((("}
max_items(kind) == IF kind = "named" THEN BatchMaxNames ELSE BatchMaxQueries
ItemLists(kind) ==
    UNION {[1..n -> ItemTexts(kind)] : n \in 0..MaxItems}
        \cup {[i \in 1..(max_items(kind) + 1) |-> CHOOSE t \in ItemTexts(kind) : TRUE]}

\* BATCH_PARALLELISM as the environment sets it.
ParallelismEnv ==
    {None} \cup {Some(v) : v \in 0..MaxPar} \cup {Some(MaxBatchParallelism + 1)}

\* .unwrap_or(4).max(1).min(32)
parallelism(env) ==
    LET v == IF env = None THEN DefaultBatchParallelism ELSE env[1]
        atleast == IF v < MinBatchParallelism THEN MinBatchParallelism ELSE v
    IN  IF atleast > MaxBatchParallelism THEN MaxBatchParallelism ELSE atleast

\* The result of the task of one item, given what the cache manager returns
\* when the task calls it: found (a card, a page of cards) or not.
item_result(kind, idx, text, limits, found) ==
    [idx |-> idx, item |-> text,
     ok |-> IF kind = "named" THEN found
            ELSE IF validate_query_string(limits, text) # "ok" THEN FALSE
            ELSE IF ~parse(text).ok THEN FALSE
            ELSE IF validate_ast(limits, parse(text).node) # "ok" THEN FALSE
            ELSE found]

\* Vec::sort_by_key(|(idx, _)| *idx): a stable sort.
RECURSIVE insert_by_key(_, _)
insert_by_key(x, sorted) ==
    IF sorted = <<>> THEN <<x>>
    ELSE IF x.idx < sorted[1].idx THEN <<x>> \o sorted
    ELSE <<sorted[1]>> \o insert_by_key(x, Tail(sorted))

\* The pairs as collect() returns them.
sort_by_key_unsorted(pairs) == pairs
RECURSIVE sort_by_key(_)
sort_by_key(pairs) ==
    IF pairs = <<>> THEN <<>>
    ELSE insert_by_key(pairs[Len(pairs)],
                       sort_by_key(SubSeq(pairs, 1, Len(pairs) - 1)))

\* not_found of batch_get_cards_by_name: the names of the results without a
\* card, in the order of the results.
RECURSIVE not_found(_)
not_found(results) ==
    IF results = <<>> THEN <<>>
    ELSE (IF results[1].ok THEN <<>> ELSE <<results[1].item>>)
             \o not_found(Tail(results))

parts1to4h == <<part1to4, hvars, gvars>>

\* A batch request arrives.
BatchReceive ==
    /\ bpc = "idle"
    /\ \E kind \in {"named", "queries"} :
         /\ bkind' = kind
         /\ bitems' \in ItemLists(kind)
    /\ bpc' = "received"
    /\ bnext' = 1
    /\ inflight' = {}
    /\ indexed' = <<>>
    /\ bresp' = None
    /\ UNCHANGED <<parts1to4h, benv>>

\* No items, or more than BATCH_MAX_NAMES / BATCH_MAX_QUERIES.
BatchReject ==
    /\ bpc = "received"
    /\ (bitems = <<>> \/ Len(bitems) > max_items(bkind))
    /\ bresp' = Some([status |-> status_code("VALIDATION_ERROR"),
                      code |-> "VALIDATION_ERROR", results |-> <<>>,
                      not_found |-> <<>>])
    /\ bpc' = "done"
    /\ UNCHANGED <<parts1to4h, bkind, bitems, benv, bnext, inflight, indexed>>

\* The handler builds the stream of the tasks and awaits it.
BatchRun ==
    /\ bpc = "received"
    /\ bitems # <<>>
    /\ Len(bitems) <= max_items(bkind)
    /\ bpc' = "running"
    /\ UNCHANGED <<parts1to4h, bkind, bitems, benv, bnext, inflight, indexed,
                   bresp>>

\* buffer_unordered takes the next task from the stream while it polls
\* fewer than parallelism tasks.
BatchStart ==
    /\ bpc = "running"
    /\ bnext <= Len(bitems)
    /\ Cardinality(inflight) < parallelism(benv)
    /\ inflight' = inflight \cup {bnext}
    /\ bnext' = bnext + 1
    /\ UNCHANGED <<parts1to4h, bpc, bkind, bitems, benv, indexed, bresp>>

\* The task of an item completes, in any order.
BatchComplete ==
    /\ bpc = "running"
    /\ \E i \in inflight, found \in BOOLEAN :
         /\ inflight' = inflight \ {i}
         /\ indexed' = Append(indexed,
                item_result(bkind, i, bitems[i], query_limits, found))
    /\ UNCHANGED <<parts1to4h, bpc, bkind, bitems, benv, bnext, bresp>>

\* collect() is done: the handler sorts the pairs and answers.
BatchAnswer ==
    /\ bpc = "running"
    /\ bnext > Len(bitems)
    /\ inflight = {}
    /\ LET results == sort_by_key(indexed)
       IN  bresp' = Some([status |-> 200, code |-> "none", results |-> results,
                          not_found |-> IF bkind = "named" THEN not_found(results)
                                        ELSE <<>>])
    /\ bpc' = "done"
    /\ UNCHANGED <<parts1to4h, bkind, bitems, benv, bnext, inflight, indexed>>

\* The answer is sent.
BatchReply ==
    /\ bpc = "done"
    /\ bpc' = "idle"
    /\ UNCHANGED <<parts1to4h, bkind, bitems, benv, bnext, inflight, indexed,
                   bresp>>

\* ------------------------------------------------------------------------
\* ScryfallClient::search_cards (src/scryfall/client.rs)
\* ------------------------------------------------------------------------

\* The records of a page: a card id, or 0 for a record that
\* Card::from_scryfall_json cannot convert.
PageData ==
    {<<>>} \cup {<<c>> : c \in 0..MaxSearchIds}
        \cup {<<0, c>> : c \in 1..MaxSearchIds}

\* SearchResponse: data, has_more and whether next_page is Some.
SearchPages == [data : PageData, has_more : BOOLEAN, has_next : BOOLEAN]

\* The cards of a page that convert.
RECURSIVE decodable(_)
decodable(data) ==
    IF data = <<>> THEN <<>>
    ELSE (IF data[1] = 0 THEN <<>> ELSE <<data[1]>>) \o decodable(Tail(data))

\* The page after page n, with the loop following next_page whatever
\* has_more says.
page_after_ignoring_has_more(n, page) ==
    IF page.has_next THEN Some(n + 1) ELSE None
\* if has_more { next_page = search_response.next_page } else { None }
page_after(n, page) ==
    IF page.has_more THEN (IF page.has_next THEN Some(n + 1) ELSE None) ELSE None

\* What make_request and the reading of the answer end with when they fail.
SearchFailures == {"transport", "open", "status", "undecodable"}

parts1to4n == <<part1to4, hvars, nvars>>

\* search_cards is called: next_page is the first page of the query.
SearchStart ==
    /\ spc = "idle"
    /\ spc' = "loop"
    /\ next_page' = Some(1)
    /\ scards' = <<>>
    /\ served' = <<>>
    /\ acquired' = 0
    /\ breaker_calls' = 0
    /\ sres' = None
    /\ UNCHANGED parts1to4n

\* One turn of the loop: make_request takes a token and calls the breaker;
\* the upstream answers with a page.  The last page the upstream has ends
\* the result.
SearchPage ==
    /\ spc = "loop"
    /\ next_page # None
    /\ acquired' = acquired + 1
    /\ breaker_calls' = breaker_calls + 1
    /\ \E page \in SearchPages :
         /\ (next_page[1] >= MaxSearchPages) => ~(page.has_more /\ page.has_next)
         /\ served' = Append(served, page)
         /\ scards' = scards \o decodable(page.data)
         /\ next_page' = page_after(next_page[1], page)
    /\ UNCHANGED <<parts1to4n, spc, sres>>

\* One turn of the loop fails: the send fails or the breaker is open
\* (make_request), the status is not 2xx, or the body is no SearchResponse.
SearchPageFails ==
    /\ spc = "loop"
    /\ next_page # None
    /\ acquired' = acquired + 1
    /\ breaker_calls' = breaker_calls + 1
    /\ \E f \in SearchFailures : sres' = Some([ok |-> FALSE, why |-> f])
    /\ spc' = "done"
    /\ UNCHANGED <<parts1to4n, next_page, scards, served>>

\* The loop ends: Ok(cards).
SearchReturn ==
    /\ spc = "loop"
    /\ next_page = None
    /\ sres' = Some([ok |-> TRUE, cards |-> scards])
    /\ spc' = "done"
    /\ UNCHANGED <<parts1to4n, next_page, scards, served, acquired,
                   breaker_calls>>

\* ========================================================================
\* Part VI : the rate limiter in time (src/scryfall/rate_limiter.rs), the
\* breaker's probes, and the translator of the query language
\* (src/query/executor.rs).
\* ========================================================================
parts1to5 ==
    <<vars, cvars, tvars, qvars, lvars, pvars, bvars, uvars, hvars, nvars, gvars>>
\* All but the limiter.
except_rvars == <<parts1to5, kvars, wvars, evars>>
\* All but the versioned tiers.
except_wvars == <<parts1to5, rvars, kvars, evars>>

\* Quota::per_second(r): r cells of burst, one cell replenished every
\* interval.  The tolerance of a limiter that lets one cell too many through.
burst_tolerance_wide(r) == r + 1
\* The tolerance of the quota, in intervals.
burst_tolerance(r) == r

\* limiter.check() at time t: the earliest time the next cell conforms.
earliest(r) == IF tat - burst_tolerance(r) < 0 THEN 0 ELSE tat - burst_tolerance(r)

\* acquire(): limiter.check() is Ok, the call returns.
AcquireOk ==
    /\ rl_pc = "idle"
    /\ acquires < MaxAcquires
    /\ rl_now >= earliest(requests_per_second)
    /\ tat' = (IF tat > rl_now THEN tat ELSE rl_now) + 1
    /\ acquires' = acquires + 1
    /\ UNCHANGED <<except_rvars, requests_per_second, rl_now, rl_pc, wake_at>>

\* acquire(): limiter.check() is Err(not_until), the task sleeps wait_time.
AcquireWait ==
    /\ rl_pc = "idle"
    /\ acquires < MaxAcquires
    /\ rl_now < earliest(requests_per_second)
    /\ wake_at' = earliest(requests_per_second)
    /\ rl_pc' = "sleeping"
    /\ UNCHANGED <<except_rvars, requests_per_second, rl_now, tat, acquires>>

\* sleep(wait_time) ends, at its time or later; acquire() loops.
AcquireWake ==
    /\ rl_pc = "sleeping"
    /\ \E t \in wake_at..MaxLimiterTime :
         /\ t >= rl_now
         /\ rl_now' = t
    /\ rl_pc' = "idle"
    /\ UNCHANGED <<except_rvars, requests_per_second, tat, wake_at, acquires>>

\* Time passes between two calls of acquire().
BetweenAcquires ==
    /\ rl_pc = "idle"
    /\ rl_now < MaxLimiterTime
    /\ rl_now' = rl_now + 1
    /\ UNCHANGED <<except_rvars, requests_per_second, tat, rl_pc, wake_at, acquires>>

\* ------------------------------------------------------------------------
\* The breaker's probes (src/circuit_breaker/mod.rs 93-156)
\* ------------------------------------------------------------------------

\* The future of call() is dropped while it awaits f (mod.rs 113, 115, 123):
\* neither on_success nor on_failure runs, and nothing gives back the slot
\* that line 110 took.
Cancel(p) ==
    /\ pc[p] \in {"exec", "inflight"}
    /\ pc' = [pc EXCEPT ![p] = "idle"]
    /\ probe' = [probe EXCEPT ![p] = FALSE]
    /\ current_state' = [current_state EXCEPT ![p] = "none"]
    /\ result' = [result EXCEPT ![p] = "none"]
    /\ UNCHANGED <<config, cb, now, tokens, trace, opened_at, consec_fail,
                   thresh_at, consec_5xx, http5xx_at>>
    /\ UNCHANGED <<cvars, svars>>

\* Time beyond the modelled clock: the quota is replenished as in Tick, the
\* clock's reading stays at its cap.
Refill ==
    /\ now = MaxTime
    /\ tokens < MaxRate
    /\ tokens' = MaxRate
    /\ UNCHANGED <<config, cb, now, pc, current_state, probe, result, trace,
                   opened_at, consec_fail, thresh_at, consec_5xx, http5xx_at>>
    /\ UNCHANGED <<cvars, svars>>

\* ------------------------------------------------------------------------
\* BulkLoader::load in time (src/scryfall/bulk_loader.rs 139-179): the
\* snapshot is discovered when load() starts, the import is recorded with
\* imported_at = NOW() when it ends.
\* ------------------------------------------------------------------------
\* All but the clock, the refresh task and the snapshots.
except_kvars == <<vars, cvars, qvars, pvars, bvars, uvars, hvars, nvars,
                  gvars, rvars, wvars, evars>>

\* What the end of a load() that discovered snapshot d leaves as the snapshot
\* of the last successful load.
downloaded_after(o, d) == IF o = "ok" THEN d ELSE downloaded

\* load() of main or of the refresh task: discover_bulk_data().
LoadDiscovers ==
    /\ tpc \in {"startup_load", "load"}
    /\ loading' = Some(upstream_updated_at)
    /\ tpc' = IF tpc = "load" THEN "loading" ELSE "startup_loading"
    /\ UNCHANGED <<backend, clock, has_cards, imports, upstream_updated_at,
                   cache_ttl_hours, tick, load_ok>>
    /\ UNCHANGED <<except_kvars, fpc, floading, downloaded>>

\* load() of main or of the refresh task ends: download_and_import and
\* record_bulk_import, or an error on the way.
LoadRecords ==
    /\ tpc \in {"startup_loading", "loading"}
    /\ \E o \in LoadOutcomes :
         /\ load(o)
         /\ downloaded' = downloaded_after(o, loading)
    /\ loading' = None
    /\ tick' = IF tpc = "loading" THEN [tick EXCEPT !.loads = @ + 1] ELSE tick
    /\ tpc' = IF tpc = "loading" THEN "done" ELSE "first"
    /\ UNCHANGED <<backend, clock, upstream_updated_at, cache_ttl_hours>>
    /\ UNCHANGED <<except_kvars, fpc, floading>>

\* admin_reload calls load(): discover_bulk_data().
AdminDiscovers ==
    /\ tpc \notin {"startup", "startup_load", "startup_loading", "exited"}
    /\ fpc = "idle"
    /\ floading' = Some(upstream_updated_at)
    /\ fpc' = "loading"
    /\ UNCHANGED <<backend, clock, has_cards, imports, upstream_updated_at,
                   cache_ttl_hours, tpc, tick, load_ok>>
    /\ UNCHANGED <<except_kvars, loading, downloaded>>

\* The load() of admin_reload ends.
AdminRecords ==
    /\ fpc = "loading"
    /\ \E o \in LoadOutcomes :
         /\ load(o)
         /\ downloaded' = downloaded_after(o, floading)
    /\ floading' = None
    /\ fpc' = "idle"
    /\ UNCHANGED <<backend, clock, upstream_updated_at, cache_ttl_hours, tpc,
                   tick>>
    /\ UNCHANGED <<except_kvars, loading>>

\* The upstream publishes a new bulk file, at an instant of its own: not in
\* an hour in which an import was recorded before.
Publish ==
    /\ upstream_updated_at < clock
    /\ clock \notin imports
    /\ upstream_updated_at' = clock
    /\ UNCHANGED <<backend, clock, has_cards, imports, cache_ttl_hours, tpc,
                   tick, load_ok>>
    /\ UNCHANGED <<except_kvars, kvars>>

\* ------------------------------------------------------------------------
\* CacheManager::get_card (src/cache/manager.rs 326-371) step by step and
\* CacheManager::search (53-220) as one step, over versioned cards, while
\* the bulk loader and the upstream act.  No tier fails here.
\* ------------------------------------------------------------------------
VCards == 1..MaxVCards
Getters == 1..NumGetters

\* A cache entry written when `at` loads had completed.
Entry(x, at) == Some([val |-> x, at |-> at])

\* The ids the store has a row of; every card matches the query.
present == {c \in VCards : w_rows[c] # <<>>}
\* get_card_by_id(id): the first row of that id, 0 for none.
store_version(c) == IF w_rows[c] = <<>> THEN 0 ELSE w_rows[c][1]

\* A plain INSERT into a table without a key on id.
insert_card(rows, v) == Append(rows, v)

\* INSERT .. ON CONFLICT (id) DO UPDATE of one card.
upsert_card(rows, v) == IF rows = <<>> THEN <<v>> ELSE [rows EXCEPT ![1] = v]

\* insert_cards_batch of the cards the upstream has.
upsert_all(versions) ==
    [c \in VCards |-> IF versions[c] > 0
                      THEN upsert_card(w_rows[c], versions[c])
                      ELSE w_rows[c]]

\* The caller has its card: set_card if there is a distributed tier.
GotCard(r, v) ==
    /\ g_card' = [g_card EXCEPT ![r] = Some(v)]
    /\ IF w_redis
       THEN /\ g_pc' = [g_pc EXCEPT ![r] = "set_card"]
            /\ UNCHANGED g_result
       ELSE /\ g_pc' = [g_pc EXCEPT ![r] = "done"]
            /\ g_result' = [g_result EXCEPT ![r] = Some(v)]

\* get_card(id) is called.
GetCardStart(r) ==
    /\ g_pc[r] \in {"idle", "done"}
    /\ \E id \in VCards :
         /\ g_id' = [g_id EXCEPT ![r] = id]
         /\ g_absent' = [g_absent EXCEPT ![r] =
                           w_redis_card[id] = None /\ w_rows[id] = <<>>]
    /\ g_pc' = [g_pc EXCEPT ![r] = IF w_redis THEN "redis" ELSE "store"]
    /\ g_card' = [g_card EXCEPT ![r] = None]
    /\ g_result' = [g_result EXCEPT ![r] = None]
    /\ g_upcalls' = [g_upcalls EXCEPT ![r] = 0]
    /\ g_hit' = [g_hit EXCEPT ![r] = None]
    /\ UNCHANGED <<w_redis, w_rows, w_redis_card, w_redis_query, w_qcache,
                   w_upstream, loads, quiet, s_hit>>
    /\ UNCHANGED except_wvars

\* 1. redis.get_card(id): a hit is returned as it is.
GetCardRedis(r) ==
    /\ g_pc[r] = "redis"
    /\ LET e == w_redis_card[g_id[r]]
       IN  IF e # None
           THEN /\ g_result' = [g_result EXCEPT ![r] = Some(e[1].val)]
                /\ g_hit' = [g_hit EXCEPT ![r] =
                               Some([at |-> e[1].at, v |-> e[1].val,
                                     loads |-> loads,
                                     store |-> store_version(g_id[r])])]
                /\ g_pc' = [g_pc EXCEPT ![r] = "done"]
           ELSE /\ g_pc' = [g_pc EXCEPT ![r] = "store"]
                /\ UNCHANGED <<g_result, g_hit>>
    /\ UNCHANGED <<w_redis, w_rows, w_redis_card, w_redis_query, w_qcache,
                   w_upstream, loads, quiet, g_id, g_card, g_absent,
                   g_upcalls, s_hit>>
    /\ UNCHANGED except_wvars

\* 2. db.get_card_by_id(id).
GetCardStore(r) ==
    /\ g_pc[r] = "store"
    /\ IF w_rows[g_id[r]] # <<>>
       THEN GotCard(r, store_version(g_id[r]))
       ELSE /\ g_pc' = [g_pc EXCEPT ![r] = "upstream"]
            /\ UNCHANGED <<g_card, g_result>>
    /\ UNCHANGED <<w_redis, w_rows, w_redis_card, w_redis_query, w_qcache,
                   w_upstream, loads, quiet, g_id, g_absent, g_upcalls,
                   g_hit, s_hit>>
    /\ UNCHANGED except_wvars

\* 3. scryfall_client.get_card_by_id(id).
GetCardUpstream(r) ==
    /\ g_pc[r] = "upstream"
    /\ g_upcalls' = [g_upcalls EXCEPT ![r] = @ + 1]
    /\ IF w_upstream[g_id[r]] > 0
       THEN /\ g_card' = [g_card EXCEPT ![r] = Some(w_upstream[g_id[r]])]
            /\ g_pc' = [g_pc EXCEPT ![r] = "insert"]
       ELSE /\ g_pc' = [g_pc EXCEPT ![r] = "done"]
            /\ UNCHANGED g_card
    /\ UNCHANGED <<w_redis, w_rows, w_redis_card, w_redis_query, w_qcache,
                   w_upstream, loads, quiet, g_id, g_result, g_absent,
                   g_hit, s_hit>>
    /\ UNCHANGED except_wvars

\* db.insert_cards_batch(&[card]) of the upstream's card.
GetCardInsert(r) ==
    /\ g_pc[r] = "insert"
    /\ w_rows' = [w_rows EXCEPT ![g_id[r]] = upsert_card(@, g_card[r][1])]
    /\ GotCard(r, g_card[r][1])
    /\ UNCHANGED <<w_redis, w_redis_card, w_redis_query, w_qcache, w_upstream,
                   loads, quiet, g_id, g_absent, g_upcalls, g_hit, s_hit>>
    /\ UNCHANGED except_wvars

\* redis.set_card(&card).await.ok(), then the card is returned.
GetCardSetCard(r) ==
    /\ g_pc[r] = "set_card"
    /\ w_redis_card' = [w_redis_card EXCEPT
                          ![g_id[r]] = Entry(g_card[r][1], loads)]
    /\ g_result' = [g_result EXCEPT ![r] = g_card[r]]
    /\ g_pc' = [g_pc EXCEPT ![r] = "done"]
    /\ UNCHANGED <<w_redis, w_rows, w_redis_query, w_qcache, w_upstream,
                   loads, quiet, g_id, g_card, g_absent, g_upcalls, g_hit,
                   s_hit>>
    /\ UNCHANGED except_wvars

\* What a search returned: the cards, the tier, the entry's stamp, and the
\* store at that moment.
Hit(tier, at, cards) ==
    Some([tier |-> tier, at |-> at, cards |-> cards, loads |-> loads,
          store |-> present])

\* search(q, None), the whole call: the distributed entry, the query_cache
\* row, the store, the upstream; each with its writes.
SearchCall ==
    /\ LET rq == IF w_redis /\ w_redis_query # None
                 THEN w_redis_query[1].val \cap present ELSE {}
           qc == IF w_qcache # None THEN w_qcache[1].val \cap present ELSE {}
           up == {c \in VCards : w_upstream[c] > 0}
           set_query(ids) == IF w_redis THEN Entry(ids, loads) ELSE w_redis_query
       IN  CASE rq # {} ->
                  /\ s_hit' = Hit("redis", w_redis_query[1].at, rq)
                  /\ UNCHANGED <<w_rows, w_redis_card, w_redis_query, w_qcache>>
             [] rq = {} /\ qc # {} ->
                  /\ s_hit' = Hit("qcache", w_qcache[1].at, qc)
                  /\ w_redis_query' = set_query(w_qcache[1].val)
                  /\ UNCHANGED <<w_rows, w_redis_card, w_qcache>>
             [] rq = {} /\ qc = {} /\ present # {} ->
                  /\ s_hit' = Hit("store", loads, present)
                  /\ w_qcache' = Entry(present, loads)
                  /\ w_redis_query' = set_query(present)
                  /\ UNCHANGED <<w_rows, w_redis_card>>
             [] rq = {} /\ qc = {} /\ present = {} /\ up # {} ->
                  /\ w_rows' = upsert_all(w_upstream)
                  /\ s_hit' = Some([tier |-> "upstream", at |-> loads,
                                    cards |-> up, loads |-> loads,
                                    store |-> up])
                  /\ w_qcache' = Entry(up, loads)
                  /\ w_redis_query' = set_query(up)
                  /\ w_redis_card' =
                        [c \in VCards |->
                           IF w_redis /\ c \in up
                           THEN Entry(w_upstream[c], loads)
                           ELSE w_redis_card[c]]
             [] OTHER ->
                  /\ s_hit' = Hit("upstream", loads, {})
                  /\ UNCHANGED <<w_rows, w_redis_card, w_redis_query, w_qcache>>
    /\ quiet' = FALSE
    /\ UNCHANGED <<w_redis, w_upstream, loads, g_pc, g_id, g_card, g_result,
                   g_absent, g_upcalls, g_hit>>
    /\ UNCHANGED except_wvars

\* BulkLoader::load completes: every card of the upstream has been upserted.
\* Nothing in load() touches the caches: invalidate_all has no caller.
LoadCompletes ==
    /\ loads < MaxLoads
    /\ \E c \in VCards : w_upstream[c] > 0
    /\ w_rows' = upsert_all(w_upstream)
    /\ loads' = loads + 1
    /\ quiet' = FALSE
    /\ UNCHANGED <<w_redis, w_redis_card, w_redis_query, w_qcache, w_upstream,
                   g_pc, g_id, g_card, g_result, g_absent, g_upcalls, g_hit,
                   s_hit>>
    /\ UNCHANGED except_wvars

\* The upstream changes a card (a new printing, a price, an erratum) or
\* publishes a new one.
UpstreamChanges ==
    /\ \E c \in VCards :
         /\ w_upstream[c] < MaxVersion
         /\ w_upstream' = [w_upstream EXCEPT ![c] = @ + 1]
    /\ quiet' = FALSE
    /\ UNCHANGED <<w_redis, w_rows, w_redis_card, w_redis_query, w_qcache,
                   loads, g_pc, g_id, g_card, g_result, g_absent, g_upcalls,
                   g_hit, s_hit>>
    /\ UNCHANGED except_wvars

\* ========================================================================
\* Specifications
\* ========================================================================
allvars == <<vars, cvars, svars>>

\* A new breaker and rate limiter; no call of make_request is in progress.
InitCallers ==
    /\ cb = CircuitStateData_new
    /\ now = 0
    /\ tokens = MaxRate
    /\ pc = [p \in Callers |-> "idle"]
    /\ current_state = [p \in Callers |-> "none"]
    /\ probe = [p \in Callers |-> FALSE]
    /\ result = [p \in Callers |-> "none"]
    /\ trace = [p \in Callers |-> <<>>]
    /\ opened_at = None
    /\ consec_fail = 0
    /\ thresh_at = None
    /\ consec_5xx = 0
    /\ http5xx_at = None

\* No cache manager request runs (the breaker's specifications).
InitNoCache ==
    /\ workload = "none"
    /\ redis_enabled = FALSE
    /\ redis_query = None
    /\ redis_cards = {}
    /\ redis_auto = None
    /\ query_cache = None
    /\ store_cards = {}
    /\ upstream_cards = {}
    /\ rpc = [r \in Readers |-> "idle"]
    /\ rop = [r \in Readers |-> [kind |-> "none"]]
    /\ rids = [r \in Readers |-> {}]
    /\ rcards = [r \in Readers |-> {}]
    /\ rtodo = [r \in Readers |-> <<>>]
    /\ rtrace = [r \in Readers |-> <<>>]
    /\ rresult = [r \in Readers |-> NoResult]
    /\ rtotal = [r \in Readers |-> 0]
    /\ rwfail = [r \in Readers |-> FALSE]

\* The refresh task has not ticked.
NoTick == [last |-> None, theirs |-> 0, check |-> "none", should |-> "none",
           loads |-> 0]

\* The clock stands at 0.
InitNoClock ==
    /\ backend = "postgres"
    /\ clock = 0

\* No result-set row is under observation.
InitNoQueryCache ==
    /\ qc_row = None
    /\ qc_got = "none"
    /\ qc_touch = None
    /\ query_cache_ttl_hours = 1

\* The refresh task is disabled (BulkRefreshConfig.enabled = false).
InitNoRefresh ==
    /\ has_cards = FALSE
    /\ imports = {}
    /\ upstream_updated_at = 0
    /\ cache_ttl_hours = 1
    /\ tpc = "off"
    /\ tick = NoTick
    /\ load_ok = FALSE

\* No client is paging.
InitNoPages ==
    /\ pnames = [c \in 1..MaxPagedCards |-> 1]
    /\ pcards = {}
    /\ psize = 1
    /\ pnext = 1
    /\ pconcat = <<>>

\* load() is not running.
InitNoLoad ==
    /\ lpc = "idle"
    /\ snap = [good |-> 0, bad |-> 0]
    /\ attempt = 0
    /\ slept = <<>>
    /\ left = 0
    /\ imported = 0
    /\ upserted = 0
    /\ lres = "none"
    /\ lfault = "none"
    /\ records = <<>>

\* Nobody upserts; the cards table is empty.
InitNoUpsert ==
    /\ cards_tbl = [i \in 1..MaxUpsertIds |-> None]
    /\ ibres = "none"

\* A limiter nobody acquires.
InitNoLimiter ==
    /\ requests_per_second = 1
    /\ rl_now = 0
    /\ tat = 1
    /\ rl_pc = "idle"
    /\ wake_at = 0
    /\ acquires = 0

\* Part VI at rest.
\* No load() is running and none has succeeded.
InitNoSnapshot ==
    /\ loading = None
    /\ fpc = "idle"
    /\ floading = None
    /\ downloaded = None

\* No get_card and no search over the versioned cards.
InitNoVersions ==
    /\ w_redis = FALSE
    /\ w_rows = [c \in VCards |-> <<>>]
    /\ w_redis_card = [c \in VCards |-> None]
    /\ w_redis_query = None
    /\ w_qcache = None
    /\ w_upstream = [c \in VCards |-> 0]
    /\ loads = 0
    /\ quiet = TRUE
    /\ g_pc = [r \in Getters |-> "idle"]
    /\ g_id = [r \in Getters |-> 1]
    /\ g_card = [r \in Getters |-> None]
    /\ g_result = [r \in Getters |-> None]
    /\ g_absent = [r \in Getters |-> FALSE]
    /\ g_upcalls = [r \in Getters |-> 0]
    /\ g_hit = [r \in Getters |-> None]
    /\ s_hit = None

\* No query is with the executor.
InitNoTranslation ==
    /\ e_pc = "idle"
    /\ e_query = ""
    /\ e_ast = None
    /\ e_where = None

InitNoPart6 ==
    /\ InitNoLimiter
    /\ InitNoSnapshot
    /\ InitNoVersions
    /\ InitNoTranslation

\* No batch request is in a handler.
InitNoBatch ==
    /\ bpc = "idle"
    /\ bkind = "named"
    /\ bitems = <<>>
    /\ benv = None
    /\ bnext = 1
    /\ inflight = {}
    /\ indexed = <<>>
    /\ bresp = None

\* search_cards is not running.
InitNoSearch ==
    /\ spc = "idle"
    /\ next_page = None
    /\ scards = <<>>
    /\ served = <<>>
    /\ acquired = 0
    /\ breaker_calls = 0
    /\ sres = None

\* No request is in a handler.
InitNoRequest ==
    /\ InitNoBatch
    /\ InitNoSearch
    /\ query_limits = DefaultLimits
    /\ hpc = "idle"
    /\ req = [endpoint |-> "search", q |-> "", named |-> "none", ids |-> 0,
              fetch_missing |-> FALSE]
    /\ hast = None
    /\ hreason = "none"
    /\ resp = None
    /\ mcalls = 0
    /\ merr = "none"

\* Parts IV and V at rest.
InitNoDetail ==
    /\ InitNoLoad
    /\ InitNoPart6
    /\ InitNoUpsert
    /\ InitNoRequest

\* Parts III and IV at rest (the specifications of Parts I and II).
InitNoStore ==
    /\ InitNoClock
    /\ InitNoQueryCache
    /\ InitNoRefresh
    /\ InitNoPages
    /\ InitNoDetail

\* The breaker with the thresholds of its tests and below, idle callers.
Init ==
    /\ config \in [failure_threshold : 1..TestFailureThreshold,
                   success_threshold : 1..TestSuccessThreshold,
                   timeout : {OpenTimeout},
                   half_open_max_requests : 1..TestHalfOpenMaxRequests]
    /\ InitCallers
    /\ InitNoCache
    /\ InitNoStore

\* The deployed breaker: CircuitBreakerConfig::from_env with nothing set.
InitDefault ==
    /\ config = [failure_threshold |-> DefaultFailureThreshold,
                 success_threshold |-> DefaultSuccessThreshold,
                 timeout |-> OpenTimeout,
                 half_open_max_requests |-> DefaultHalfOpenMaxRequests]
    /\ InitCallers
    /\ InitNoCache
    /\ InitNoStore

\* The caches hold whatever earlier runs and other replicas left in them; only
\* the keys the workload reads are varied. The breaker is new and stays so.
InitCache ==
    /\ workload \in {"search", "get_card", "autocomplete", "search_paginated",
                     "get_cards_batch"}
    /\ redis_enabled \in BOOLEAN
    /\ redis_query \in (IF redis_enabled /\ workload = "search"
                        THEN OptSets ELSE {None})
    /\ redis_cards \in (IF redis_enabled /\ workload = "get_card"
                        THEN SUBSET CardIds ELSE {{}})
    /\ redis_auto \in (IF redis_enabled /\ workload = "autocomplete"
                       THEN OptSets ELSE {None})
    /\ query_cache \in (IF workload \in {"search", "search_paginated"}
                        THEN OptSets ELSE {None})
    /\ store_cards \in SUBSET CardIds
    /\ upstream_cards \in SUBSET CardIds
    /\ rpc = [r \in Readers |-> "idle"]
    /\ rop = [r \in Readers |-> [kind |-> "none"]]
    /\ rids = [r \in Readers |-> {}]
    /\ rcards = [r \in Readers |-> {}]
    /\ rtodo = [r \in Readers |-> <<>>]
    /\ rtrace = [r \in Readers |-> <<>>]
    /\ rresult = [r \in Readers |-> NoResult]
    /\ rtotal = [r \in Readers |-> 0]
    /\ rwfail = [r \in Readers |-> FALSE]
    /\ config = [failure_threshold |-> DefaultFailureThreshold,
                 success_threshold |-> DefaultSuccessThreshold,
                 timeout |-> OpenTimeout,
                 half_open_max_requests |-> DefaultHalfOpenMaxRequests]
    /\ InitCallers
    /\ InitNoStore

\* The steps of the callers of make_request and of the clock.
Next ==
    \/ \E p \in Callers : Acquire(p)
    \/ \E p \in Callers : Call(p)
    \/ \E p \in Callers : TakeSlot(p)
    \/ \E p \in Callers : Send(p)
    \/ \E p \in Callers : OnSuccess(p)
    \/ \E p \in Callers : OnFailure(p)
    \/ Tick

\* The steps of a read request of the cache manager and of the writers.
NextCache ==
    \/ \E r \in Readers : Start(r)
    \/ \E r \in Readers : RedisGet(r)
    \/ \E r \in Readers : RedisDeref(r)
    \/ \E r \in Readers : QueryCacheGet(r)
    \/ \E r \in Readers : QueryCacheDeref(r)
    \/ \E r \in Readers : StoreRead(r)
    \/ \E r \in Readers : UpstreamRead(r)
    \/ \E r \in Readers : Insert(r)
    \/ \E r \in Readers : WriteBack(r)
    \/ \E r \in Readers : Finish(r)
    \/ \E r \in Readers : PgCount(r)
    \/ \E r \in Readers : PgPage(r)
    \/ \E r \in Readers : PgUpstream(r)
    \/ \E r \in Readers : PgInsert(r)
    \/ \E r \in Readers : BatchStore(r)
    \/ \E r \in Readers : BatchFetch(r)
    \/ BulkUpsert
    \/ OtherWriteBack

\* The breaker and the cache manager at rest.
InitIdle ==
    /\ config = [failure_threshold |-> DefaultFailureThreshold,
                 success_threshold |-> DefaultSuccessThreshold,
                 timeout |-> OpenTimeout,
                 half_open_max_requests |-> DefaultHalfOpenMaxRequests]
    /\ InitCallers
    /\ InitNoCache

\* A store whose cards all match the query, and a client about to page.
InitPages ==
    /\ pnames \in [PagedIds -> Names]
    /\ pcards \in SUBSET PagedIds
    /\ psize \in 1..MaxPageSize
    /\ pnext = 1
    /\ pconcat = <<>>
    /\ InitIdle
    /\ InitNoClock
    /\ InitNoQueryCache
    /\ InitNoRefresh
    /\ InitNoDetail

NextPages == FetchPage

\* A store of either backend whose query_cache table is empty.
InitQueryCache ==
    /\ backend \in Backends
    /\ clock = 0
    /\ qc_row = None
    /\ qc_got = "none"
    /\ qc_touch = None
    /\ query_cache_ttl_hours \in 1..MaxTtl
    /\ InitIdle
    /\ InitNoRefresh
    /\ InitNoPages
    /\ InitNoDetail

NextQueryCache ==
    \/ StoreQueryCache
    \/ GetQueryCache
    \/ Hour

SpecQueryCache == InitQueryCache /\ [][NextQueryCache]_allvars

\* The service starts on a store of either backend that earlier runs may
\* have filled: a recorded import means its cards are there.
InitRefresh ==
    /\ backend \in Backends
    /\ clock = 0
    /\ has_cards \in BOOLEAN
    /\ imports \in SUBSET {0}
    /\ imports # {} => has_cards
    /\ upstream_updated_at = 0
    /\ cache_ttl_hours \in 1..MaxTtl
    /\ tpc = "startup"
    /\ tick = NoTick
    /\ load_ok = FALSE
    /\ InitIdle
    /\ InitNoQueryCache
    /\ InitNoPages
    /\ InitNoDetail

NextRefresh ==
    \/ StartupCheck
    \/ StartupLoad
    \/ FirstTick
    \/ Check
    \/ Fallback
    \/ Load
    \/ TickEnds
    \/ ForceLoad
    \/ UpstreamPublishes
    \/ Hour

SpecRefresh == InitRefresh /\ [][NextRefresh]_allvars

\* The service is up and load() is about to be called.
InitLoad ==
    /\ InitNoLoad
    /\ InitNoPart6
    /\ InitNoUpsert
    /\ InitNoRequest
    /\ InitIdle
    /\ InitNoClock
    /\ InitNoQueryCache
    /\ InitNoRefresh
    /\ InitNoPages

NextLoad ==
    \/ LoadStart
    \/ Discover
    \/ Download
    \/ Parse
    \/ ImportBatch
    \/ VerifyAndRecord

SpecLoad == InitLoad /\ [][NextLoad]_allvars

\* A store of either backend with an empty cards table.
InitUpsert ==
    /\ backend \in Backends
    /\ clock = 0
    /\ InitNoUpsert
    /\ InitNoLoad
    /\ InitNoPart6
    /\ InitNoRequest
    /\ InitIdle
    /\ InitNoQueryCache
    /\ InitNoRefresh
    /\ InitNoPages

NextUpsert ==
    \/ InsertCardsBatch
    \/ Hour

SpecUpsert == InitUpsert /\ [][NextUpsert]_allvars

\* The service is up with the limits of its environment; no request yet.
InitHandlers ==
    /\ query_limits \in Limits
    /\ hpc = "idle"
    /\ req = [endpoint |-> "search", q |-> "", named |-> "none", ids |-> 0,
              fetch_missing |-> FALSE]
    /\ hast = None
    /\ hreason = "none"
    /\ resp = None
    /\ mcalls = 0
    /\ merr = "none"
    /\ InitNoBatch
    /\ InitNoSearch
    /\ InitNoLoad
    /\ InitNoPart6
    /\ InitNoUpsert
    /\ InitIdle
    /\ InitNoClock
    /\ InitNoQueryCache
    /\ InitNoRefresh
    /\ InitNoPages

NextHandlers ==
    \/ Receive
    \/ RejectParams
    \/ ValidateQueryString
    \/ ParseQuery
    \/ ValidateAst
    \/ CallManager
    \/ Reply

SpecHandlers == InitHandlers /\ [][NextHandlers]_allvars

\* The service is up with its BATCH_PARALLELISM; no batch request yet.
InitBatch ==
    /\ benv \in ParallelismEnv
    /\ bpc = "idle"
    /\ bkind = "named"
    /\ bitems = <<>>
    /\ bnext = 1
    /\ inflight = {}
    /\ indexed = <<>>
    /\ bresp = None
    /\ query_limits = DefaultLimits
    /\ hpc = "idle"
    /\ req = [endpoint |-> "search", q |-> "", named |-> "none", ids |-> 0,
              fetch_missing |-> FALSE]
    /\ hast = None
    /\ hreason = "none"
    /\ resp = None
    /\ mcalls = 0
    /\ merr = "none"
    /\ InitNoSearch
    /\ InitNoLoad
    /\ InitNoPart6
    /\ InitNoUpsert
    /\ InitIdle
    /\ InitNoClock
    /\ InitNoQueryCache
    /\ InitNoRefresh
    /\ InitNoPages

NextBatch ==
    \/ BatchReceive
    \/ BatchReject
    \/ BatchRun
    \/ BatchStart
    \/ BatchComplete
    \/ BatchAnswer
    \/ BatchReply

SpecBatch == InitBatch /\ [][NextBatch]_allvars

\* A client about to search.
InitSearch ==
    /\ InitNoSearch
    /\ InitNoBatch
    /\ query_limits = DefaultLimits
    /\ hpc = "idle"
    /\ req = [endpoint |-> "search", q |-> "", named |-> "none", ids |-> 0,
              fetch_missing |-> FALSE]
    /\ hast = None
    /\ hreason = "none"
    /\ resp = None
    /\ mcalls = 0
    /\ merr = "none"
    /\ InitNoLoad
    /\ InitNoPart6
    /\ InitNoUpsert
    /\ InitIdle
    /\ InitNoClock
    /\ InitNoQueryCache
    /\ InitNoRefresh
    /\ InitNoPages

NextSearch ==
    \/ SearchStart
    \/ SearchPage
    \/ SearchPageFails
    \/ SearchReturn

SpecSearch == InitSearch /\ [][NextSearch]_allvars

\* RateLimiter::new(requests_per_second): a fresh limiter at time 0.
InitLimiter ==
    /\ requests_per_second \in 1..MaxLimiterRate
    /\ rl_now = 0
    /\ tat = 1
    /\ rl_pc = "idle"
    /\ wake_at = 0
    /\ acquires = 0
    /\ InitNoSnapshot
    /\ InitNoVersions
    /\ InitNoTranslation
    /\ InitNoRequest
    /\ InitNoUpsert
    /\ lpc = "idle"
    /\ snap = [good |-> 0, bad |-> 0]
    /\ attempt = 0
    /\ slept = <<>>
    /\ left = 0
    /\ imported = 0
    /\ upserted = 0
    /\ lres = "none"
    /\ lfault = "none"
    /\ records = <<>>
    /\ InitIdle
    /\ InitNoClock
    /\ InitNoQueryCache
    /\ InitNoRefresh
    /\ InitNoPages

NextLimiter ==
    \/ AcquireOk
    \/ AcquireWait
    \/ AcquireWake
    \/ BetweenAcquires

SpecLimiter == InitLimiter /\ [][NextLimiter]_allvars

\* The callers of make_request, any of which may be dropped while its
\* operation runs.
NextProbes ==
    \/ \E p \in Callers : Acquire(p)
    \/ \E p \in Callers : Call(p)
    \/ \E p \in Callers : TakeSlot(p)
    \/ \E p \in Callers : Send(p)
    \/ \E p \in Callers : OnSuccess(p)
    \/ \E p \in Callers : OnFailure(p)
    \/ \E p \in Callers : Cancel(p)
    \/ Tick
    \/ Refill

\* Calls keep arriving and every step of a call that can be taken is taken;
\* an operation that runs completes, one way or the other, unless its caller
\* is dropped first.  Time passes.
FairProbes ==
    /\ \A p \in Callers : WF_allvars(Acquire(p))
    /\ \A p \in Callers : WF_allvars(Call(p))
    /\ \A p \in Callers : WF_allvars(TakeSlot(p))
    /\ \A p \in Callers : WF_allvars(Send(p))
    /\ \A p \in Callers : WF_allvars(OnSuccess(p) \/ OnFailure(p) \/ Cancel(p))
    /\ WF_allvars(Tick)
    /\ WF_allvars(Refill)

\* The refresh task, admin_reload and the upstream, with load() in two steps.
NextSnapshots ==
    \/ StartupCheck
    \/ FirstTick
    \/ Check
    \/ Fallback
    \/ TickEnds
    \/ LoadDiscovers
    \/ LoadRecords
    \/ AdminDiscovers
    \/ AdminRecords
    \/ Publish
    \/ Hour

SpecSnapshots == InitRefresh /\ [][NextSnapshots]_allvars

\* A new deployment: empty store, empty caches; the upstream has its cards.
InitVersions ==
    /\ w_redis \in BOOLEAN
    /\ w_rows = [c \in VCards |-> <<>>]
    /\ w_redis_card = [c \in VCards |-> None]
    /\ w_redis_query = None
    /\ w_qcache = None
    /\ w_upstream \in [VCards -> 0..1]
    /\ loads = 0
    /\ quiet = TRUE
    /\ g_pc = [r \in Getters |-> "idle"]
    /\ g_id = [r \in Getters |-> 1]
    /\ g_card = [r \in Getters |-> None]
    /\ g_result = [r \in Getters |-> None]
    /\ g_absent = [r \in Getters |-> FALSE]
    /\ g_upcalls = [r \in Getters |-> 0]
    /\ g_hit = [r \in Getters |-> None]
    /\ s_hit = None
    /\ InitNoLimiter
    /\ InitNoSnapshot
    /\ InitNoTranslation
    /\ InitNoRequest
    /\ InitNoUpsert
    /\ InitNoLoad
    /\ InitIdle
    /\ InitNoClock
    /\ InitNoQueryCache
    /\ InitNoRefresh
    /\ InitNoPages

NextVersions ==
    \/ \E r \in Getters : GetCardStart(r)
    \/ \E r \in Getters : GetCardRedis(r)
    \/ \E r \in Getters : GetCardStore(r)
    \/ \E r \in Getters : GetCardUpstream(r)
    \/ \E r \in Getters : GetCardInsert(r)
    \/ \E r \in Getters : GetCardSetCard(r)
    \/ SearchCall
    \/ LoadCompletes
    \/ UpstreamChanges

SpecVersions == InitVersions /\ [][NextVersions]_allvars

SpecProbes == Init /\ [][NextProbes]_allvars /\ FairProbes

\* The pages of one query read one after the other.
SpecPages == InitPages /\ [][NextPages]_allvars

\* The breaker and make_request under concurrent callers, thresholds 1..2.
Spec == Init /\ [][Next]_allvars

\* The same with the deployed default thresholds.
SpecDefault == InitDefault /\ [][Next]_allvars

\* The cache manager's read operations under concurrent writers; no upstream
\* call is in progress.
SpecCache == InitCache /\ [][NextCache]_allvars

\* ------------------------------------------------------------------------
\* Properties of the breaker and of make_request
\* ------------------------------------------------------------------------
Range(f) == {f[i] : i \in DOMAIN f}

\* Caller p leaves the given position in this step.
Leaves(p, at) == pc[p] = at /\ pc'[p] # at
\* Caller p's call() performs its state inspection in this step.
Inspects(p) == Leaves(p, "call")
\* Caller p's operation f starts (the HTTP request is sent) in this step.
Starts(p) == pc[p] = "exec" /\ pc'[p] = "inflight"
\* Caller p is admitted as a half-open probe in this step.
TakesProbeSlot(p) == pc[p] = "slot" /\ pc'[p] = "exec"
\* Caller p's operation completes in this step.
Completes(p) == Leaves(p, "inflight")
\* Caller p's call is refused with the Open error and has not run its operation.
Refused(p) ==
    /\ pc[p] = "idle"
    /\ result[p] = CircuitOpenError
    /\ "send" \notin Range(trace[p])

\* The probes in flight: admitted as a probe and not yet completed.
ProbesInFlight == {q \in Callers : probe[q]}

\* failure_threshold operations in a row have failed and the open timeout has
\* not elapsed since the last of them made the streak complete.
ThresholdStreak ==
    /\ thresh_at # None
    /\ now - thresh_at[1] < config.timeout

\* C1: once failure_threshold calls in a row have had their operation fail,
\* a call made before the open timeout has elapsed is rejected with the Open
\* error and its operation is never run.
C1_RejectsAfterThreshold ==
    [][\A p \in Callers :
          (Inspects(p) /\ ThresholdStreak) => Refused(p)']_vars

\* C1 witness: a call was refused while the streak is complete and fresh.
C1_Witness ==
    \E p \in Callers :
        /\ Refused(p)
        /\ ThresholdStreak
        /\ consec_fail = config.failure_threshold
        /\ cb.state = "Open"

\* The breaker has been Open for at least the open timeout.
OpenForTimeout ==
    /\ cb.state = "Open"
    /\ opened_at # None
    /\ now - opened_at[1] >= config.timeout

\* C2, second part: the probe success that makes success_threshold closes.
C2_ProbeSuccessCloses ==
    \A p \in Callers :
        (Completes(p) /\ probe[p] /\ result'[p] = "Ok" /\ cb.state = "HalfOpen"
            /\ cb.success_count + 1 >= config.success_threshold)
        => cb'.state = "Closed"

\* C2, third part: a single failed probe re-opens.
C2_ProbeFailureReopens ==
    \A p \in Callers :
        (Completes(p) /\ probe[p] /\ result'[p] = SendError /\ cb.state = "HalfOpen")
        => cb'.state = "Open"

\* C2, first part: an inspection of a breaker that has been Open for the open
\* timeout moves it to HalfOpen and sends the inspecting call on as a probe.
C2_InspectionHalfOpens ==
    \A p \in Callers :
        (Inspects(p) /\ OpenForTimeout)
        => (cb'.state = "HalfOpen" /\ pc'[p] = "slot")

\* C2: after the open timeout the next inspection half-opens the breaker and
\* the call goes on as a probe; success_threshold probe successes close it; a
\* failed probe re-opens it.
C2_Recovery ==
    [][C2_InspectionHalfOpens /\ C2_ProbeSuccessCloses /\ C2_ProbeFailureReopens]_vars

\* The second and third parts of C2 alone.
C2_ProbeOutcomes ==
    [][C2_ProbeSuccessCloses /\ C2_ProbeFailureReopens]_vars

\* C3: with failure_threshold = 5, the fifth consecutive HTTP 5xx answer
\* leaves the breaker Open, and a call made after it within the open timeout
\* is rejected without an HTTP request being sent.
C3_OpensOn5xx ==
    [][/\ (config.failure_threshold = DefaultFailureThreshold
            /\ consec_5xx < DefaultFailureThreshold
            /\ consec_5xx' = DefaultFailureThreshold) => cb'.state = "Open"
       /\ \A p \in Callers :
            (Inspects(p) /\ config.failure_threshold = DefaultFailureThreshold
                /\ http5xx_at # None /\ now - http5xx_at[1] < config.timeout)
            => Refused(p)']_vars

\* C4: an operation starts only while the gate permits it: never while the
\* breaker is Open, and a probe slot is taken only while it is HalfOpen.
C4_GatePermits ==
    [][\A p \in Callers :
          /\ Starts(p) => cb.state # "Open"
          /\ TakesProbeSlot(p) => cb.state = "HalfOpen"]_vars

\* C5: while HalfOpen, a call is admitted as a probe exactly when fewer than
\* half_open_max_requests probes are in flight.
C5_ConcurrentProbeLimit ==
    [][\A p \in Callers :
          (Leaves(p, "slot") /\ cb.state = "HalfOpen")
          => (TakesProbeSlot(p)
                <=> Cardinality(ProbesInFlight) < config.half_open_max_requests)]_vars

\* C6: every inspection at or after opened_at + open_timeout moves the
\* breaker to HalfOpen with its counters reset.
C6_OpenPeriodFromOpening ==
    [][\A p \in Callers :
          (Inspects(p) /\ OpenForTimeout)
          => /\ cb'.state = "HalfOpen"
             /\ cb'.failure_count = 0
             /\ cb'.success_count = 0
             /\ cb'.half_open_attempts = 0]_vars

\* C7: an HTTP request is in flight only after acquire() returned and the
\* breaker then admitted the call, in that order; a refused call has sent no
\* request and its error differs from the error of the request itself.
C7_AcquireThenBreakerThenSend ==
    \A p \in Callers :
        /\ "send" \in Range(trace[p])
              => trace[p] = <<"acquire", "admit", "send">>
        /\ pc[p] = "inflight" => "send" \in Range(trace[p])
        /\ result[p] = CircuitOpenError
              => (trace[p] = <<"acquire", "reject">> /\ result[p] # SendError)
        /\ result[p] \in {"Ok", SendError} => "send" \in Range(trace[p])

\* C7 witness: one request is in flight while another call was refused.
C7_Witness ==
    \E p, q \in Callers :
        /\ pc[p] = "inflight"
        /\ trace[p] = <<"acquire", "admit", "send">>
        /\ Refused(q)

\* ------------------------------------------------------------------------
\* Properties of the cache manager's read path
\* ------------------------------------------------------------------------
\* The tiers the contract puts before the upstream for an operation.
TiersBeforeUpstream(kind) ==
    (IF redis_enabled THEN {"redis"} ELSE {}) \cup
    (IF kind = "search" THEN {"qcache"} ELSE {}) \cup {"store"}

\* The tiers reader r's request has consulted so far.
Consulted(r) == {rtrace[r][i].tier : i \in DOMAIN rtrace[r]}

\* Reader r's request is calling the upstream or has called it.
AtUpstream(r) == rpc[r] = "upstream" \/ "upstream" \in Consulted(r)

\* C8: within one search or get_card request the tiers are consulted in the
\* order distributed tier, durable result-set cache (search only), store,
\* upstream, none is passed over, and the upstream is called only after every
\* earlier tier was consulted in this request and gave no usable result,
\* whatever the concurrent writers do.
C8_TiersInOrder ==
    \A r \in Readers :
        rop[r].kind \in {"search", "get_card"} =>
            LET tr == rtrace[r]
                before == TiersBeforeUpstream(rop[r].kind)
            IN  /\ \A i, j \in DOMAIN tr :
                      i < j => TierRank(tr[i].tier) < TierRank(tr[j].tier)
                /\ \A i \in DOMAIN tr : \A t \in before :
                      TierRank(t) < TierRank(tr[i].tier) =>
                          \E j \in 1..(i - 1) : tr[j].tier = t
                /\ AtUpstream(r) =>
                      /\ before \subseteq Consulted(r)
                      /\ \A i \in DOMAIN tr :
                            tr[i].tier # "upstream" => tr[i].n = 0

\* C8 witness: a search went through all four tiers, the distributed entry
\* having dereferenced to nothing, and the upstream gave cards.
C8_Witness ==
    \E r \in Readers :
        /\ rop[r].kind = "search"
        /\ rpc[r] = "idle"
        /\ Len(rtrace[r]) = 4
        /\ rtrace[r][1].entry
        /\ rtrace[r][4].tier = "upstream"
        /\ rtrace[r][4].n > 0
        /\ rresult[r].ok

\* C9: a search whose last consulted tier is a result-set entry that
\* dereferenced to zero cards is on its way to the next tier, and a search
\* that returned an empty result got it from the upstream.
C9_EmptyDerefIsMiss ==
    \A r \in Readers :
        (rop[r].kind = "search" /\ rtrace[r] # <<>>) =>
            LET last == rtrace[r][Len(rtrace[r])]
            IN  /\ (last.entry /\ last.n = 0 /\ last.tier = "redis") =>
                      rpc[r] \in {"qcache", "qcache_deref"}
                /\ (last.entry /\ last.n = 0 /\ last.tier = "qcache") =>
                      rpc[r] = "store"
                /\ (rpc[r] = "idle" /\ rresult[r] = Ok({})) =>
                      last.tier = "upstream"

\* C9 witness: a search has returned cards after an entry of the durable
\* result-set cache had dereferenced, without error, to zero cards.
C9_Witness ==
    \E r \in Readers :
        /\ rop[r].kind = "search"
        /\ rpc[r] = "idle"
        /\ rresult[r].ok
        /\ rresult[r].cards # {}
        /\ \E i \in DOMAIN rtrace[r] :
              /\ rtrace[r][i].tier = "qcache"
              /\ rtrace[r][i].entry
              /\ rtrace[r][i].ok
              /\ rtrace[r][i].n = 0

\* C10: once a request has its cards and is at its cache writes, each step
\* either leaves it there with the same cards or returns exactly these cards:
\* no cache write, failed or not, changes or fails the result.
C10_FailedWriteKeepsResult ==
    [][\A r \in Readers :
          rpc[r] = "write" =>
              \/ rpc'[r] = "write" /\ rcards'[r] = rcards[r]
              \/ rpc'[r] = "idle" /\ rresult'[r] = Ok(rcards[r])]_allvars

\* C10 witness: a get_card request one of whose cache writes failed has
\* returned its card.
C10_Witness ==
    \E r \in Readers :
        /\ rop[r].kind = "get_card"
        /\ rpc[r] = "idle"
        /\ rwfail[r]
        /\ rresult[r].ok
        /\ rresult[r].cards # {}

\* C11: a search made with Some(limit) that has returned successfully has
\* returned at most limit cards, whichever tier answered it.
C11_AtMostLimit ==
    \A r \in Readers :
        (/\ rop[r].kind = "search"
         /\ rpc[r] = "idle"
         /\ rresult[r].ok
         /\ rop[r].limit # None) =>
            Cardinality(rresult[r].cards) <= rop[r].limit[1]

\* The local count-and-page query of reader r's search_paginated failed, or
\* reported total 0 and no cards.
LocalGaveNothing(r) ==
    LET tr == rtrace[r]
    IN  /\ tr # <<>>
        /\ tr[1].tier = "count"
        /\ \/ ~tr[1].ok
           \/ /\ Len(tr) >= 2
              /\ tr[2].tier = "page"
              /\ (~tr[2].ok \/ (tr[1].n = 0 /\ tr[2].n = 0))

\* Where a search_paginated request stands and what it answered.
PaginatedState(r) ==
    LET up == upstream_cards
        total == Cardinality(up)
        first == (rop[r].page - 1) * rop[r].page_size
        last == Min(rop[r].page * rop[r].page_size, total)
    IN  /\ rpc[r] \in {"idle", "pg_count", "pg_page", "pg_upstream", "pg_insert"}
        /\ Consulted(r) \subseteq {"count", "page", "upstream"}
        /\ (rpc[r] \in {"pg_upstream", "pg_insert"} \/ "upstream" \in Consulted(r))
              => LocalGaveNothing(r)
        /\ (rpc[r] = "idle" /\ rresult[r].ok /\ "upstream" \in Consulted(r)) =>
              /\ rresult[r].total = total
              /\ rresult[r].cards =
                    {c \in up : PosIn(up, c) > first /\ PosIn(up, c) <= last}
              /\ up \subseteq store_cards

\* C12: search_paginated reads no result-set cache tier and its steps write
\* none; it asks the upstream only after the local count-and-page query failed
\* or reported total 0 with no cards; an answer that came from the upstream
\* has total = the number of upstream cards, all of them upserted, and the
\* cards at positions (page-1)*page_size up to min(page*page_size, total).
C12_PaginatedBypassesCache ==
    [][\A r \in Readers :
          rop'[r].kind = "search_paginated" =>
              /\ PaginatedState(r)'
              /\ rpc'[r] # rpc[r] =>
                    UNCHANGED <<redis_query, redis_cards, redis_auto,
                                query_cache>>]_allvars

\* C12 witness: the second page came from the upstream while the durable
\* result-set cache held an entry for the query.
C12_Witness ==
    \E r \in Readers :
        /\ rop[r].kind = "search_paginated"
        /\ rop[r].page = 2
        /\ rpc[r] = "idle"
        /\ rresult[r].ok
        /\ "upstream" \in Consulted(r)
        /\ rresult[r].cards # {}
        /\ query_cache # None

\* The index of the first occurrence of id in the list ids.
FirstIndex(ids, id) == CHOOSE i \in DOMAIN ids :
                          ids[i] = id /\ \A j \in 1..(i - 1) : ids[j] # id

\* C13: a get_cards_batch that has returned (cards, missing) gives in cards
\* the requested ids that were resolved, in request order, all of them in
\* the store; in missing every other requested id exactly once in the order
\* of first occurrence; no id is in both, and with fetch_missing no id the
\* upstream has is left missing.
C13_BatchOrderAndMissing ==
    \A r \in Readers :
        (rop[r].kind = "get_cards_batch" /\ rpc[r] = "idle" /\ rresult[r].ok) =>
            LET ids == rop[r].ids
                cards == rresult[r].cards
                missing == rresult[r].missing
            IN  /\ cards = SelectSeq(ids, LAMBDA id : id \in Elems(cards))
                /\ Elems(cards) \subseteq store_cards
                /\ Elems(cards) \cup Elems(missing) = Elems(ids)
                /\ Elems(cards) \cap Elems(missing) = {}
                /\ \A i, j \in DOMAIN missing :
                      i < j => /\ missing[i] # missing[j]
                               /\ FirstIndex(ids, missing[i])
                                     < FirstIndex(ids, missing[j])
                /\ rop[r].fetch_missing =>
                      Elems(missing) \cap upstream_cards = {}

\* C13 witness: a batch of three ids with a repeated unresolved id, whose
\* other id was fetched from the upstream.
C13_Witness ==
    \E r \in Readers :
        /\ rop[r].kind = "get_cards_batch"
        /\ rpc[r] = "idle"
        /\ rresult[r].ok
        /\ rop[r].fetch_missing
        /\ rop[r].ids = <<2, 1, 2>>
        /\ rresult[r].cards = <<1>>
        /\ rresult[r].missing = <<2>>
        /\ Len(rtrace[r]) = 2

\* The list of the cards S by ascending name, ties broken by ascending id.
ByNameThenId(S) ==
    CHOOSE f \in Perms(S) :
        \A i, j \in 1..Cardinality(S) :
            i < j => \/ pnames[f[i]] < pnames[f[j]]
                     \/ pnames[f[i]] = pnames[f[j]] /\ f[i] < f[j]

\* C14: once the pages 1..ceil(total/page_size) have been read from an
\* unchanged store, their concatenation is the list of all matching cards,
\* each once, by ascending name and, for equal names, ascending id.
C14_PagesConcatenate ==
    pnext > total_pages(Cardinality(pcards), psize) =>
        pconcat = ByNameThenId(pcards)

\* The row is there and was last written or returned more than ttl_hours ago.
Unread ==
    /\ qc_row # None
    /\ clock > qc_touch[1] + qc_row[1].ttl_hours

\* C15: get_query_cache(fp) returns no entry for a row whose last write or
\* returned read lies more than its ttl_hours in the past, in either backend.
C15_UnreadEntryAbsent ==
    [][(qc_got' # "none" /\ Unread) => qc_got' = "miss"]_allvars

\* The row is there and was last written or returned less than ttl_hours ago.
ReadInTime ==
    /\ qc_row # None
    /\ clock < qc_touch[1] + qc_row[1].ttl_hours

\* C16: a returned read refreshes the entry: get_query_cache(fp) returns a row
\* that was written or returned less than its ttl_hours ago, in either backend.
C16_ReadKeepsEntry ==
    [][(qc_got' # "none" /\ ReadInTime) => qc_got' = "hit"]_allvars

\* C17: once a load() has succeeded, get_last_bulk_import() returns the
\* imported_at of the most recently recorded import, in either backend.
C17_LastImportAfterLoad ==
    load_ok => get_last_bulk_import(backend, imports) = Done(Some(Max(imports)))

\* C18: should_load() is true without cards; with cards it is true exactly
\* when an import is recorded and cache_ttl_hours whole hours have passed
\* since the last one, and false otherwise.
C18_ShouldLoad ==
    should_load(backend, has_cards, imports, clock, cache_ttl_hours)
      = Done(\/ ~has_cards
             \/ /\ imports # {}
                /\ clock - Max(imports) >= cache_ttl_hours)

\* The tick has checked, and the upstream's updated_at was the timestamp of
\* the last import.
TickUnchanged ==
    /\ tick.check # "none"
    /\ tick.last # None
    /\ tick.theirs = tick.last[1]

\* check_upstream_updated returned true only on a strictly later updated_at
\* or without any recorded import.
TrueOnlyIfNewer ==
    tick.check = "true" => (tick.last = None \/ tick.theirs > tick.last[1])

loads_due(t) ==
    IF t.check = "true" \/ (t.check = "err" /\ t.should = "true") THEN 1 ELSE 0

\* C20: the first tick does nothing; a later tick calls load() once when
\* check_upstream_updated returned Ok(true), or failed and should_load() then
\* returned Ok(true), and not at all in every other case.
C20_TickLoads ==
    [][/\ (tpc = "first" /\ tpc' # "first")
          => (tpc' = "wait" /\ UNCHANGED <<has_cards, imports, load_ok, tick>>)
       /\ tpc' = "done" => tick'.loads = loads_due(tick')
       /\ tick'.loads <= 1]_allvars

C20_Witness ==
    /\ tpc = "done"
    /\ tick.check = "err"
    /\ tick.should = "true"
    /\ tick.loads = 1


\* C21: a load that imported fewer than 1000 cards returns an error and
\* appends no import record; a record is appended only by a load in which
\* every step succeeded and at least 1000 cards were imported, and its
\* total_cards is the number of cards the load upserted.
C21_RecordOnlyAfterFullImport ==
    /\ (lpc = "done" /\ imported < MinImported)
         => (lres = "err" /\ records = <<>>)
    /\ records # <<>>
         => /\ lres = "ok"
            /\ lfault = "none"
            /\ left = 0
            /\ imported >= MinImported
            /\ records = <<upserted>>

C21_Witness ==
    /\ lres = "ok"
    /\ snap = [good |-> MinImported + 1, bad |-> 1]
    /\ records = <<MinImported + 1>>

\* C22 as stated: undecodable records never make load() fail, however many
\* of the snapshot's records they are: a load of a snapshot of 1000 records
\* or more whose steps all succeed does not fail at the verification.
C22_DecodeFailuresNeverFail ==
    lfault = "verify" => snap.good + snap.bad < MinImported

\* C22 amended: undecodable records are counted and skipped and do not make
\* load() fail as long as at least 1000 records are imported: a load that
\* fails at nothing but the verification has fewer than 1000 decodable records.
C22_DecodeFailuresSkipped ==
    /\ lfault = "verify" => snap.good < MinImported
    /\ (lpc = "done" /\ lfault = "none") => (lres = "ok" /\ imported = snap.good)

C22_Witness ==
    /\ lres = "ok"
    /\ snap.bad = MaxBatches * BATCH_SIZE
    /\ imported = snap.good

\* C24: the download is attempted at most MAX_RETRIES times; it fails only
\* after the last attempt failed, no attempt follows a successful one, and
\* the k-th failed attempt that another attempt follows is followed by a
\* sleep of 1000 * 2^(k-1) ms.
C24_RetryWithBackoff ==
    /\ attempt <= MAX_RETRIES
    /\ \A k \in DOMAIN slept : slept[k] = 1000 * 2 ^ (k - 1)
    /\ lpc = "download" => Len(slept) = attempt
    /\ lfault = "download"
         => (attempt = MAX_RETRIES /\ Len(slept) = MAX_RETRIES - 1)
    /\ (lpc \in {"parse", "import"} \/ (lpc = "done" /\ lfault \notin {"discover", "download"}))
         => (attempt >= 1 /\ Len(slept) = attempt - 1)

C24_Witness ==
    /\ lfault = "download"
    /\ attempt = 3
    /\ slept = <<1000, 2000>>


\* The rows of two tables agree in everything but updated_at.
SameButUpdatedAt(t1, t2) ==
    \A i \in UpsertIds :
        /\ (t1[i] = None) = (t2[i] = None)
        /\ t1[i] # None => /\ t1[i][1].val = t2[i][1].val
                           /\ t1[i][1].created_at = t2[i][1].created_at

\* C23: on every table, insert_cards_batch of a batch holding a card twice
\* succeeds and leaves the rows that the batch holding it once leaves
\* (updated_at apart), in either backend.
C23_UpsertTwiceAsOnce ==
    \A c \in UpsertCards :
        LET twice == insert_cards_batch(backend, cards_tbl, <<c, c>>, clock)
            once == insert_cards_batch(backend, cards_tbl, <<c>>, clock)
        IN  /\ twice.ok
            /\ once.ok
            /\ SameButUpdatedAt(twice.tbl, once.tbl)

\* ------------------------------------------------------------------------
\* Part V: the handlers and the query language
\* ------------------------------------------------------------------------

\* C25: in search, card by id, card by name and batch by id with
\* fetch_missing, an upstream transport failure, an upstream non-2xx answer
\* other than 404 and a rejection by the open breaker are each answered with
\* SCRYFALL_API_ERROR and status 502.
C25_UpstreamFailureIsApiError ==
    (hpc = "done" /\ merr \in {"transport", "status", "open"})
        => resp = Some([status |-> 502, code |-> "SCRYFALL_API_ERROR"])

\* C26: a search whose query text has unbalanced parentheses is answered
\* with status 400 and INVALID_QUERY.
C26_UnbalancedIsInvalidQuery ==
    (hpc = "done" /\ req.endpoint = "search"
        /\ hreason \in {"closing", "unclosed"})
        => resp = Some([status |-> 400, code |-> "INVALID_QUERY"])

\* The reasons C27 lists for a rejection by the validator, and queries that
\* give each of them under the tight limits.
C27_Reasons == {"too_long", "depth", "or_clauses", "field", "operator", "color"}
C27_Examples ==
    {<<"name:>5", "operator">>, <<"foo:w", "field">>, <<"c:z", "color">>,
     <<Rep("a", DefaultMaxQueryLength + 1), "too_long">>,
     <<Rep("- ", EnvMaxNesting) \o "a", "depth">>,
     <<Rep("(a or b) ", EnvMaxOrClauses + 1), "or_clauses">>,
     <<"", "parse">>, <<"not", "parse">>}

\* C27: in the search handler a query the validator rejects because it is
\* too long, too deep, has too many Or clauses, an unknown field, a numeric
\* operator on a text field or an illegal colour letter is answered with 400
\* VALIDATION_ERROR, a query the parser builds no tree for is answered with
\* 400 INVALID_QUERY, and in both cases the cache manager (the handler's only
\* way to the store and the upstream) is not called for the request.
C27_RejectedBeforeManager ==
    (hpc \in {"done", "idle"} /\ req.endpoint = "search") =>
        /\ hreason \in C27_Reasons =>
              /\ resp = Some([status |-> 400, code |-> "VALIDATION_ERROR"])
              /\ mcalls = 0
        /\ hreason = "parse" =>
              /\ resp = Some([status |-> 400, code |-> "INVALID_QUERY"])
              /\ mcalls = 0
        /\ \A ex \in C27_Examples :
              (req.q = ex[1] /\ query_limits = TightLimits /\ resp # None)
                  => hreason = ex[2]

C27_Witness ==
    /\ hpc = "done"
    /\ req.endpoint = "search"
    /\ req.q = "name:>5"
    /\ resp = Some([status |-> 400, code |-> "VALIDATION_ERROR"])
    /\ mcalls = 0

\* The canonical field of every name C29 lists, and a legal value for it.
C29_Canonical ==
    [f \in {"name", "color", "c", "color_identity", "id", "identity", "type",
            "t", "type_line", "oracle", "o", "oracle_text", "set", "s",
            "rarity", "r", "power", "pow", "toughness", "tou", "loyalty",
            "loy", "cmc", "mana"} |->
        CASE f \in {"color", "c"} -> "color"
          [] f \in {"color_identity", "id", "identity"} -> "color_identity"
          [] f \in {"type", "t", "type_line"} -> "type"
          [] f \in {"oracle", "o", "oracle_text"} -> "oracle"
          [] f \in {"set", "s"} -> "set"
          [] f \in {"rarity", "r"} -> "rarity"
          [] f \in {"power", "pow"} -> "power"
          [] f \in {"toughness", "tou"} -> "toughness"
          [] f \in {"loyalty", "loy"} -> "loyalty"
          [] f \in {"cmc", "mana"} -> "cmc"
          [] OTHER -> "name"]
C29_Legal(f) ==
    IF C29_Canonical[f] \in {"color", "color_identity"} THEN "w"
    ELSE IF C29_Canonical[f] \in {"power", "toughness", "loyalty", "cmc"} THEN "5"
    ELSE "z"

\* C29: a filter written with a canonical field name or one of its aliases,
\* ':' and a legal value is parsed to a leaf with the canonical field name,
\* and the validator accepts the leaf.
C29_AliasesParseAndValidate ==
    \A f \in DOMAIN C29_Canonical :
        (req.endpoint = "search" /\ req.q = f \o ":" \o C29_Legal(f)) =>
            /\ hpc = "parsed" =>
                  hast = Some([k |-> "Filter", field |-> C29_Canonical[f],
                               operator |-> "Contains", value |-> C29_Legal(f)])
            /\ hpc = "done" => hreason \notin {"field", "operator", "color"}

\* C28: in /cards/named/batch and /queries/batch the answer holds one result
\* per item of the request, the i-th result being that of the i-th item
\* whatever the order of completion, and never are more items in process
\* than BATCH_PARALLELISM clamped to 1..32 (4 when unset).
C28_BatchInOrderAndBounded ==
    /\ LET v == IF benv = None THEN 4 ELSE benv[1]
       IN  Cardinality(inflight) <= (IF v < 1 THEN 1 ELSE IF v > 32 THEN 32 ELSE v)
    /\ (bpc = "done" /\ bresp[1].status = 200) =>
          /\ Len(bresp[1].results) = Len(bitems)
          /\ \A i \in 1..Len(bitems) :
                /\ bresp[1].results[i].idx = i
                /\ bresp[1].results[i].item = bitems[i]

C28_Witness ==
    /\ bpc = "done"
    /\ bresp[1].status = 200
    /\ Len(bitems) = 3
    /\ indexed[1].idx = 2
    /\ indexed[2].idx = 3
    /\ benv = Some(2)

\* The cards of the pages that convert, in the order of the pages.
RECURSIVE C30_Cards(_)
C30_Cards(pages) ==
    IF pages = <<>> THEN <<>>
    ELSE C30_Cards(SubSeq(pages, 1, Len(pages) - 1))
             \o SelectSeq(pages[Len(pages)].data, LAMBDA c : c # 0)

\* C30: search_cards takes one rate-limit token and calls the breaker once
\* for every page it requests, requests no page after the first page whose
\* has_more is false or that has no next_page, returns the convertible cards
\* of all pages in page order, and returns an error without any card when a
\* page request fails or is answered with a non-2xx status.
C30_SearchPaging ==
    /\ acquired = breaker_calls
    /\ \A i \in 1..(Len(served) - 1) : served[i].has_more /\ served[i].has_next
    /\ spc = "loop" => acquired = Len(served)
    /\ (spc = "done" /\ sres[1].ok) =>
          /\ acquired = Len(served)
          /\ ~(served[Len(served)].has_more /\ served[Len(served)].has_next)
          /\ sres[1].cards = C30_Cards(served)
    /\ (spc = "done" /\ ~sres[1].ok) =>
          /\ acquired = Len(served) + 1
          /\ DOMAIN sres[1] = {"ok", "why"}

C30_Witness ==
    /\ spc = "done"
    /\ sres[1].ok
    /\ Len(served) = 2
    /\ served[1].data = <<0, 2>>
    /\ served[2].data = <<1>>
    /\ sres[1].cards = <<2, 1>>
    /\ acquired = 2

\* ------------------------------------------------------------------------
\* Part VI: the rate limiter in time
\* ------------------------------------------------------------------------

\* C31 as stated: N sequential acquire() calls on a fresh limiter of R
\* requests per second take at least (N-1)/R seconds, that is N-1 intervals.
C31_ElapsedAtLeastNMinus1 ==
    acquires >= 1 => rl_now >= acquires - 1

\* C31: N sequential acquire() calls on a fresh limiter of R requests per
\* second take at least (N-R)/R seconds, that is N-R intervals: the first R
\* calls may return at once.
C31_ElapsedAtLeastNMinusR ==
    rl_now >= acquires - requests_per_second

C31_Witness ==
    /\ requests_per_second = 2
    /\ acquires = MaxAcquires
    /\ rl_now = MaxAcquires - 2

\* ------------------------------------------------------------------------
\* Part VI: the breaker's probes
\* ------------------------------------------------------------------------

\* C32: the breaker does not remain HalfOpen forever: while calls keep
\* arriving, a HalfOpen breaker leaves that state.  An operation that fails
\* while the breaker is HalfOpen opens it, so when every operation that runs
\* succeeds the state it leaves to is Closed.
C32_LeavesHalfOpen ==
    (cb.state = "HalfOpen") ~> (cb.state # "HalfOpen")

\* C33 (first part): a Closed breaker has fewer consecutive failures on
\* record than failure_threshold.
C33_ClosedBelowThreshold ==
    cb.state = "Closed" => cb.failure_count < config.failure_threshold

\* C33 (second part): successes are counted in HalfOpen only and stay below
\* success_threshold.
C33_SuccessCountOnlyHalfOpen ==
    cb.success_count > 0 =>
        /\ cb.state = "HalfOpen"
        /\ cb.success_count < config.success_threshold

\* C33 (third part): half_open_attempts never exceeds half_open_max_requests.
C33_AttemptsWithinLimit ==
    cb.half_open_attempts <= config.half_open_max_requests

\* C33: in every reachable state of the breaker the three parts hold together.
C33_BreakerInvariants ==
    /\ C33_ClosedBelowThreshold
    /\ C33_SuccessCountOnlyHalfOpen
    /\ C33_AttemptsWithinLimit

\* A HalfOpen breaker that has counted one success of two, every slot taken,
\* one probe still running and the other caller about to ask for a slot.
C33_Witness ==
    /\ cb.state = "HalfOpen"
    /\ config.success_threshold = 2
    /\ cb.success_count = 1
    /\ cb.half_open_attempts = config.half_open_max_requests
    /\ \E p \in Callers : pc[p] = "inflight" /\ probe[p]
    /\ \E p \in Callers : pc[p] = "slot"

\* ------------------------------------------------------------------------
\* Part VI: the snapshots of the bulk loader
\* ------------------------------------------------------------------------

\* C34: a scheduler tick whose check succeeds while the upstream's snapshot
\* is later than the snapshot the last successful load() downloaded calls
\* load(), also when that snapshot was published while the load was running.
C34_NewerSnapshotIsLoaded ==
    [][(/\ tpc = "wait"
        /\ tpc' # "wait"
        /\ tick'.check \in {"true", "false"}
        /\ downloaded # None
        /\ upstream_updated_at > downloaded[1])
       => tpc' = "load"]_allvars

\* ------------------------------------------------------------------------
\* Part VI: the tiers over versioned cards
\* ------------------------------------------------------------------------

\* C35 (get_card): a get_card that returns an entry cached before the last
\* completed load returns the version the store holds now.
C35_GetCardAfterLoad ==
    \A r \in Getters :
        (g_hit[r] # None /\ g_hit[r][1].at < g_hit[r][1].loads)
            => g_hit[r][1].v = g_hit[r][1].store

\* C35 (search): a search answered from an id list cached before the last
\* completed load returns the cards the store holds now.
C35_SearchAfterLoad ==
    (s_hit # None /\ s_hit[1].at < s_hit[1].loads)
        => s_hit[1].cards = s_hit[1].store

\* C35: once a bulk load has completed, reads no longer return what either
\* cache tier held before it: get_card gives the store's current version and
\* search the store's current cards.
C35_ReadsAfterLoadAreCurrent ==
    /\ C35_GetCardAfterLoad
    /\ C35_SearchAfterLoad

\* ------------------------------------------------------------------------
\* Part II again: the upstream arms of the cache manager
\* ------------------------------------------------------------------------
\* The request of reader r has its cards from the upstream.
FromUpstream(r) ==
    /\ rtrace[r] # <<>>
    /\ rtrace[r][Len(rtrace[r])].tier = "upstream"
    /\ rtrace[r][Len(rtrace[r])].ok
    /\ rtrace[r][Len(rtrace[r])].n > 0

\* The cards a read returned, whatever its kind.
ReturnedCards(res) ==
    IF "missing" \in DOMAIN res THEN Elems(res.cards) ELSE res.cards

\* C36 (before the return, before the writes): cards obtained from the
\* upstream are in the store when the request starts its cache writes and
\* when it returns them.
C36_InsertedFirst ==
    \A r \in Readers :
        FromUpstream(r) =>
            /\ rpc[r] = "write" => rcards[r] \subseteq store_cards
            /\ (rpc[r] = "idle" /\ rresult[r].ok) =>
                   ReturnedCards(rresult[r]) \subseteq store_cards

\* C36 (the writes): what such a request writes to the distributed tier, an
\* id list or cards, refers to cards of the store only.
C36_WritesReferToStore ==
    \A r \in Readers :
        (FromUpstream(r) /\ rpc[r] = "write" /\ rtodo'[r] # rtodo[r]) =>
            /\ (redis_query' # redis_query /\ redis_query' # None) =>
                   redis_query'[1] \subseteq store_cards
            /\ (redis_cards' \ redis_cards) \subseteq store_cards

RECURSIVE UpstreamCalls(_)
UpstreamCalls(S) ==
    IF S = {} THEN 0
    ELSE LET r == CHOOSE x \in S : TRUE
         IN  g_upcalls[r] + UpstreamCalls(S \ {r})

\* Every caller has completed a get_card(id) that began while no local tier
\* held id, the upstream has the card, and nothing else has acted.
ConcurrentGetsDone(id) ==
    /\ quiet
    /\ w_upstream[id] > 0
    /\ \A r \in Getters : g_pc[r] = "done" /\ g_id[r] = id /\ g_absent[r]

LastNote(r) == rtrace[r][Len(rtrace[r])]
QueryCacheFailed(tr) ==
    /\ tr # <<>>
    /\ tr[Len(tr)].tier = "qcache"
    /\ ~tr[Len(tr)].ok
    /\ ~tr[Len(tr)].entry

\* C38 (the error): a search whose get_query_cache failed has returned that
\* error, with no write ahead, having consulted nothing but the distributed
\* tier, which gave it no card.
C38_QueryCacheErrorEnds ==
    \A r \in Readers :
        (rop[r].kind = "search" /\ QueryCacheFailed(rtrace[r])) =>
            /\ rpc[r] = "idle"
            /\ rresult[r] = Err("store")
            /\ rtodo[r] = <<>>
            /\ \A i \in 1..(Len(rtrace[r]) - 1) :
                   rtrace[r][i].tier = "redis" /\ rtrace[r][i].n = 0

\* C38 (the misses): a failing lookup or dereference of the distributed tier
\* sends the search on to get_query_cache, a failing dereference of the
\* query_cache row's ids sends it on to the store.
C38_FailuresAreMisses ==
    \A r \in Readers :
        (rop[r].kind = "search" /\ rtrace[r] # <<>> /\ ~LastNote(r).ok) =>
            /\ LastNote(r).tier = "redis" => rpc[r] \in {"qcache", "qcache_deref"}
            /\ (LastNote(r).tier = "qcache" /\ LastNote(r).entry) =>
                   rpc[r] = "store"

\* C38 (nothing written): the step in which get_query_cache fails changes
\* neither cache nor the store.
C38_NothingWritten ==
    \A r \in Readers :
        (rop[r].kind = "search" /\ ~QueryCacheFailed(rtrace[r])
                                /\ QueryCacheFailed(rtrace'[r])) =>
            UNCHANGED <<redis_query, redis_cards, redis_auto, query_cache,
                        store_cards>>

\* C38: in search an error of get_query_cache is returned at once, with no
\* store predicate, no upstream call and nothing written, while a failure of
\* the distributed tier or of a dereference is a miss.
C38_QueryCacheErrorIsReturned ==
    /\ []C38_QueryCacheErrorEnds
    /\ []C38_FailuresAreMisses
    /\ [][C38_NothingWritten]_allvars

\* A search whose distributed lookup failed and whose get_query_cache failed.
C38_Witness ==
    /\ rop[1].kind = "search"
    /\ Len(rtrace[1]) = 2
    /\ rtrace[1][1].tier = "redis" /\ ~rtrace[1][1].ok
    /\ QueryCacheFailed(rtrace[1])
    /\ rresult[1] = Err("store")

\* ------------------------------------------------------------------------
\* The translator of the query language (src/query/executor.rs): the AST of
\* a query becomes the text of a predicate and the list of its parameters.
\* ------------------------------------------------------------------------
\* All but the translator.
except_evars == <<parts1to5, rvars, kvars, wvars>>

\* What build_where_clause_inner returns and leaves in params.
Clause(text, params) == [text |-> text, params |-> params]

\* format!("${}", param_index)
placeholder(param_index) == "$" \o ToString(param_index)

\* QueryExecutor::build_text_search
build_text_search(field, param_index, operator) ==
    CASE operator = "Equal" ->
           "LOWER(" \o field \o ") = LOWER(" \o placeholder(param_index) \o ")"
      [] operator = "Contains" ->
           "to_tsvector('english', " \o field \o ") @@ plainto_tsquery('english', "
               \o placeholder(param_index) \o ")"
      [] operator = "Regex" -> field \o " ~ " \o placeholder(param_index)
      [] OTHER -> field \o " ILIKE '%' || " \o placeholder(param_index) \o " || '%'"

\* QueryExecutor::build_numeric_comparison
build_numeric_comparison(field, param_index, operator) ==
    LET op == CASE operator \in {"Equal", "Contains"} -> "="
                [] operator = "NotEqual" -> "!="
                [] operator = "GreaterThan" -> ">"
                [] operator = "LessThan" -> "<"
                [] operator = "GreaterThanOrEqual" -> ">="
                [] operator = "LessThanOrEqual" -> "<="
                [] operator = "Regex" -> "="
    IN  field \o " " \o op \o " " \o placeholder(param_index) \o "::numeric"

\* The codes build_color_clause decodes the characters of a value into.
ColorCodes == [w |-> "W", u |-> "U", b |-> "B", r |-> "R", g |-> "G", c |-> "C"]

\* The colors of build_color_clause: the codes of the characters of value
\* from character i on, the other characters left out.
RECURSIVE colors_from(_, _)
colors_from(value, i) ==
    IF i > Len(value) THEN <<>>
    ELSE LET ch == lower_char(Ch(value, i))
         IN  (IF ch \in DOMAIN ColorCodes THEN <<ColorCodes[ch]>> ELSE <<>>)
                 \o colors_from(value, i + 1)

\* The body build_color_clause and build_color_identity_clause share, over
\* the column of each.
color_membership(column, value, operator, params) ==
    LET param_index == Len(params) + 1
        colors == colors_from(value, 1)
    IN  IF colors = <<>>
        THEN Clause(column \o " IS NULL OR " \o column \o " = '{}'", params)
        ELSE Clause(
               IF operator = "NotEqual"
               THEN "NOT (" \o placeholder(param_index) \o " = ANY(" \o column \o "))"
               ELSE placeholder(param_index) \o " = ANY(" \o column \o ")",
               Append(params, colors[1]))

\* QueryExecutor::build_color_clause
build_color_clause(value, operator, params) ==
    color_membership("colors", value, operator, params)

\* QueryExecutor::build_color_identity_clause
build_color_identity_clause(value, operator, params) ==
    color_membership("color_identity", value, operator, params)

\* QueryExecutor::build_filter_clause
build_filter_clause(filter, params) ==
    LET param_index == Len(params) + 1
        field == filter.field
        text_search(column) ==
            Clause(build_text_search(column, param_index, filter.operator),
                   Append(params, filter.value))
        numeric(column) ==
            Clause(build_numeric_comparison(column, param_index, filter.operator),
                   Append(params, filter.value))
    IN  CASE field = "name" -> text_search("name")
          [] field \in {"oracle", "oracle_text"} -> text_search("oracle_text")
          [] field \in {"type", "type_line"} -> text_search("type_line")
          [] field \in {"color", "c"} ->
               build_color_clause(filter.value, filter.operator, params)
          [] field \in {"color_identity", "id", "identity"} ->
               build_color_identity_clause(filter.value, filter.operator, params)
          [] field \in {"set", "s"} ->
               Clause("set_code = " \o placeholder(param_index),
                      Append(params, to_lowercase(filter.value)))
          [] field \in {"rarity", "r"} ->
               Clause("rarity = " \o placeholder(param_index),
                      Append(params, to_lowercase(filter.value)))
          [] field = "cmc" -> numeric("cmc")
          [] field \in {"power", "pow"} -> numeric("power::numeric")
          [] field \in {"toughness", "tou"} -> numeric("toughness::numeric")
          [] field \in {"loyalty", "loy"} -> numeric("loyalty::numeric")
          [] OTHER -> text_search("name")

\* clauses.join(sep)
RECURSIVE join(_, _)
join(clauses, sep) ==
    IF clauses = <<>> THEN ""
    ELSE IF Len(clauses) = 1 THEN clauses[1]
    ELSE clauses[1] \o sep \o join(Tail(clauses), sep)

RECURSIVE build_where_clause_inner(_, _)
RECURSIVE map_clauses(_, _, _)

\* nodes.iter().map(|n| self.build_where_clause_inner(n, params)).collect():
\* the texts of the children in order, each pushing its parameters.
map_clauses(nodes, params, clauses) ==
    IF nodes = <<>> THEN [clauses |-> clauses, params |-> params]
    ELSE LET c == build_where_clause_inner(Head(nodes), params)
         IN  map_clauses(Tail(nodes), c.params, Append(clauses, c.text))

\* QueryExecutor::build_where_clause_inner
build_where_clause_inner(node, params) ==
    CASE node.k = "And" ->
           LET m == map_clauses(node.children, params, <<>>)
           IN  Clause("(" \o join(m.clauses, " AND ") \o ")", m.params)
      [] node.k = "Or" ->
           LET m == map_clauses(node.children, params, <<>>)
           IN  Clause("(" \o join(m.clauses, " OR ") \o ")", m.params)
      [] node.k = "Not" ->
           LET c == build_where_clause_inner(node.child, params)
           IN  Clause("NOT (" \o c.text \o ")", c.params)
      [] OTHER -> build_filter_clause(node, params)

\* QueryExecutor::build_where_clause
build_where_clause(node) == build_where_clause_inner(node, <<>>)

\* The query texts given to the executor.
TranslatedFields ==
    {"name", "t", "o", "c", "C", "colors", "id", "s", "r", "cmc", "CMC",
     "mana", "pow", "artist", "foo"}
TranslatedOperators == {":", ":=", ":!=", ":>"}
TranslatedValues == {"", "w", "3"}
LeafQueries ==
    {f \o o \o v : f \in TranslatedFields, o \in TranslatedOperators,
                   v \in TranslatedValues}
CompoundQueries ==
    {"name:x c:", "name:x c:w", "c: name:x", "name:x or c:", "not c:",
     "name:x -c:w", "c:!=w t:y", "(name:x or t:y) c:", "name:x (t:y c:)",
     "- c: cmc:>3", "cmc:>3 pow:<=2 s:lea", "name:x or t:y or o:z"}
TranslatedQueries == LeafQueries \cup CompoundQueries

\* search (src/api/handlers.rs): validate_query_string, parse and validate_ast
\* of the text of the query.
accepted(limits, q) ==
    /\ validate_query_string(limits, q) = "ok"
    /\ parse(q).ok
    /\ validate_ast(limits, parse(q).node) = "ok"

\* The handler lets query q through to the cache manager.
Accept(q) ==
    /\ e_pc = "idle"
    /\ accepted(DefaultLimits, q)
    /\ e_pc' = "accepted"
    /\ e_query' = q
    /\ UNCHANGED <<e_ast, e_where>>
    /\ UNCHANGED except_evars

\* The handler answers query q with an error: the executor is not called.
Reject(q) ==
    /\ e_pc = "idle"
    /\ ~accepted(DefaultLimits, q)
    /\ e_pc' = "rejected"
    /\ e_query' = q
    /\ UNCHANGED <<e_ast, e_where>>
    /\ UNCHANGED except_evars

\* QueryExecutor::execute up to the text of the statement: parse again,
\* build_where_clause.
Translate ==
    /\ e_pc = "accepted"
    /\ LET ast == parse(e_query)
       IN  /\ ast.ok
           /\ e_ast' = Some(ast.node)
           /\ e_where' = Some(build_where_clause(ast.node))
    /\ e_pc' = "translated"
    /\ UNCHANGED e_query
    /\ UNCHANGED except_evars

InitTranslate ==
    /\ InitNoTranslation
    /\ InitNoLimiter
    /\ InitNoSnapshot
    /\ InitNoVersions
    /\ InitNoRequest
    /\ InitNoUpsert
    /\ InitNoLoad
    /\ InitIdle
    /\ InitNoClock
    /\ InitNoQueryCache
    /\ InitNoRefresh
    /\ InitNoPages

NextTranslate ==
    \/ \E q \in TranslatedQueries : Accept(q)
    \/ \E q \in TranslatedQueries : Reject(q)
    \/ Translate

SpecTranslate == InitTranslate /\ [][NextTranslate]_allvars

\* ------------------------------------------------------------------------
\* C39, C40 : what the translator makes of the queries the validator accepts.
\* ------------------------------------------------------------------------
\* part occurs in text.
Mentions(text, part) ==
    \E i \in 1..(Len(text) - Len(part) + 1) :
        SubSeq(text, i, i + Len(part) - 1) = part

\* The filter leaves of an AST.
RECURSIVE FilterLeaves(_)
FilterLeaves(node) ==
    CASE node.k \in {"And", "Or"} ->
           UNION {FilterLeaves(node.children[i]) : i \in DOMAIN node.children}
      [] node.k = "Not" -> FilterLeaves(node.child)
      [] OTHER -> {node}

\* The column of the card table a field of the query language names (its
\* aliases normalized, "none" for a field the table has no column of).
column_of(field) ==
    CASE field = "name" -> "name"
      [] field = "oracle" -> "oracle_text"
      [] field = "type" -> "type_line"
      [] field \in {"color", "colors"} -> "colors"
      [] field = "set" -> "set_code"
      [] field = "rarity" -> "rarity"
      [] field \in {"cmc", "mana"} -> "cmc"
      [] field \in {"power", "toughness", "loyalty"} -> field
      [] OTHER -> "none"

Operators ==
    {"Equal", "NotEqual", "GreaterThan", "LessThan", "GreaterThanOrEqual",
     "LessThanOrEqual", "Contains", "Regex"}

\* text is a search on the name column.
name_search(text) ==
    \E operator \in Operators : text = build_text_search("name", 1, operator)

\* The sign of a comparison in the text of a predicate.
comparison_sign(operator) ==
    CASE operator = "GreaterThan" -> " > "
      [] operator = "LessThan" -> " < "
      [] operator = "GreaterThanOrEqual" -> " >= "
      [] operator = "LessThanOrEqual" -> " <= "

\* The leaves of the query the executor translated, each with the text of
\* its own predicate.
TranslatedLeaves ==
    IF e_pc = "translated"
    THEN {[leaf |-> l, text |-> build_filter_clause(l, <<>>).text] :
             l \in FilterLeaves(e_ast[1])}
    ELSE {}

\* An accepted leaf of a field other than name is not answered with a search
\* on the name column.
C39_NeverNameSearch ==
    \A t \in TranslatedLeaves :
        to_lowercase(t.leaf.field) # "name" => ~name_search(t.text)

\* The predicate of an accepted leaf is over the column of its field.
C39_OwnColumn ==
    \A t \in TranslatedLeaves :
        LET column == column_of(to_lowercase(t.leaf.field))
        IN  column # "none" => Mentions(t.text, column)

\* The predicate of an accepted leaf compares as its operator says: != is a
\* negation, and >, <, >=, <= are that comparison.
C39_OwnOperator ==
    \A t \in TranslatedLeaves :
        /\ t.leaf.operator = "NotEqual"
             => Mentions(t.text, "!=") \/ Mentions(t.text, "NOT (")
        /\ t.leaf.operator \in NumericOperators
             => Mentions(t.text, comparison_sign(t.leaf.operator))

\* C39: every filter leaf the validator accepts is translated into a
\* predicate over the column of its own field with its own operator, and
\* never into a search on the name column in place of it.
C39_AcceptedLeafKeepsFieldAndOperator ==
    /\ C39_NeverNameSearch
    /\ C39_OwnColumn
    /\ C39_OwnOperator

\* The parentheses open before character i of text.
depth(text, i) ==
    Cardinality({j \in 1..(i - 1) : Ch(text, j) = "("})
        - Cardinality({j \in 1..(i - 1) : Ch(text, j) = ")"})

\* Where connective sep stands in text outside every parenthesis.
top_level(text, sep) ==
    {i \in 1..(Len(text) - Len(sep) + 1) :
        SubSeq(text, i, i + Len(sep) - 1) = sep /\ depth(text, i) = 0}

\* text is one parenthesis: the one it opens with closes at its end.
parenthesised(text) ==
    /\ Len(text) >= 2
    /\ Ch(text, 1) = "(" /\ Ch(text, Len(text)) = ")"
    /\ \A i \in 2..Len(text) : depth(text, i) > 0

\* text binds as one operand of AND, OR and NOT: no connective stands in it
\* outside a parenthesis.
self_contained(text) ==
    top_level(text, " OR ") = {} /\ top_level(text, " AND ") = {}

Least(S) == CHOOSE m \in S : \A n \in S : m <= n

\* The conditions the text of a predicate is made of, as SQL reads it: OR
\* binds least, then AND, then NOT, then a parenthesis.
RECURSIVE conditions(_)
conditions(text) ==
    LET ors == top_level(text, " OR ")
        ands == top_level(text, " AND ")
    IN  IF ors # {}
        THEN conditions(SubSeq(text, 1, Least(ors) - 1))
                 \cup conditions(From(text, Least(ors) + 4))
        ELSE IF ands # {}
        THEN conditions(SubSeq(text, 1, Least(ands) - 1))
                 \cup conditions(From(text, Least(ands) + 5))
        ELSE IF starts_with(text, "NOT ") THEN conditions(From(text, 5))
        ELSE IF parenthesised(text) THEN conditions(SubSeq(text, 2, Len(text) - 1))
        ELSE {text}

\* A row, given as the set of the conditions it meets, satisfies the text of
\* a predicate as SQL reads it.
RECURSIVE satisfies(_, _)
satisfies(row, text) ==
    LET ors == top_level(text, " OR ")
        ands == top_level(text, " AND ")
    IN  IF ors # {}
        THEN satisfies(row, SubSeq(text, 1, Least(ors) - 1))
                 \/ satisfies(row, From(text, Least(ors) + 4))
        ELSE IF ands # {}
        THEN satisfies(row, SubSeq(text, 1, Least(ands) - 1))
                 /\ satisfies(row, From(text, Least(ands) + 5))
        ELSE IF starts_with(text, "NOT ") THEN ~satisfies(row, From(text, 5))
        ELSE IF parenthesised(text)
        THEN satisfies(row, SubSeq(text, 2, Len(text) - 1))
        ELSE text \in row

\* The parameters pushed before child i of nodes is translated.
RECURSIVE params_before(_, _, _)
params_before(nodes, i, params) ==
    IF i = 1 THEN params
    ELSE build_where_clause_inner(nodes[i - 1],
                                  params_before(nodes, i - 1, params)).params

\* A row satisfies the AST: the predicates of all children of And, of one
\* child of Or, not that of the child of Not, that of a leaf.
RECURSIVE holds(_, _, _)
holds(row, node, params) ==
    CASE node.k = "And" ->
           \A i \in DOMAIN node.children :
               holds(row, node.children[i], params_before(node.children, i, params))
      [] node.k = "Or" ->
           \E i \in DOMAIN node.children :
               holds(row, node.children[i], params_before(node.children, i, params))
      [] node.k = "Not" -> ~holds(row, node.child, params)
      [] OTHER -> satisfies(row, build_filter_clause(node, params).text)

\* The texts of the predicates the translation of node joins by AND or OR
\* or wraps in NOT, at every level of the AST.
RECURSIVE operands(_, _)
operands(node, params) ==
    CASE node.k \in {"And", "Or"} ->
           UNION {LET before == params_before(node.children, i, params)
                  IN  {build_where_clause_inner(node.children[i], before).text}
                          \cup operands(node.children[i], before) :
                  i \in DOMAIN node.children}
      [] node.k = "Not" ->
           {"(" \o build_where_clause_inner(node.child, params).text \o ")"}
               \cup operands(node.child, params)
      [] OTHER -> {}

\* Every predicate joined by AND or OR or wrapped in NOT is atomic or
\* parenthesised.
C40_OperandsSelfContained ==
    e_pc = "translated" =>
        \A text \in operands(e_ast[1], <<>>) : self_contained(text)

\* A row satisfies the text of the predicate exactly when it satisfies the
\* AST.
C40_SameRows ==
    e_pc = "translated" =>
        \A row \in SUBSET conditions(e_where[1].text) :
            satisfies(row, e_where[1].text) <=> holds(row, e_ast[1], <<>>)

\* C40: the text build_where_clause produces is a faithful boolean rendering
\* of the AST: every operand of AND, OR and NOT is atomic or parenthesised,
\* and a row satisfies the text exactly when it satisfies the AST, for every
\* kind of leaf, a colour filter with an empty value included.
C40_FaithfulRendering ==
    /\ C40_OperandsSelfContained
    /\ C40_SameRows
====
